---------------------------- MODULE Spec2Model ----------------------------
(***************************************************************************)
(* Propagation engine of transactional_sqlalchemy (async wrapper).         *)
(*                                                                         *)
(* One logical execution (one asyncio task) runs decorated calls.  The     *)
(* call stack of decorated calls is `frames`; the transaction context      *)
(* stack is `stack`; `sessions` holds the state of every session the       *)
(* session provider has handed out; `db` is committed storage.             *)
(*                                                                         *)
(* The wrapped functions are the environment: a running function may add,  *)
(* modify or delete tracked objects, flush by hand, call another decorated *)
(* function, return, or raise.  Session primitives (flush, commit,         *)
(* rollback, close, begin_nested) succeed.                                 *)
(***************************************************************************)
EXTENDS Naturals, Integers, Sequences, FiniteSets, TLC

VARIABLES
    stack,      \* transaction context stack: Seq of session ids
    frames,     \* call stack of decorated calls, innermost last
    sessions,   \* sessions[i]: state of session i
    scoped,     \* session bound in the scoped registry, 0 when none
    db,         \* objects persisted (committed)
    objs,       \* objs[o]: the session object o was added to
    muts,       \* number of add / modify / delete steps taken so far
    calls,      \* number of decorated calls made so far
    manager,    \* TRUE once init_manager has registered the session factory
    idle,       \* context of the logical execution that is suspended
    ops,        \* context operations issued directly, in order
    kwarg,      \* session that callers pass in the session keyword, 0: none
    transaction_context,  \* legacy decorator: the current session, 0: None
    legacy_sessions,      \* legacy decorator: state of each session
    legacy_frames,        \* legacy decorator: wrapper activations
    legacy_calls          \* legacy decorator: calls made so far

\* State of the legacy decorator (src/src/transactional.py).
legacy == <<transaction_context, legacy_sessions, legacy_frames, legacy_calls>>

vars == <<stack, frames, sessions, scoped, db, objs, muts, calls,
          manager, idle, ops, kwarg, legacy>>

\* State that belongs to no single decorated call of the running execution.
outside == <<manager, idle, ops, kwarg, legacy>>

\* ------------------------------------------------------------ bounds
MaxCalls == 2
MaxMuts == 2
MaxOps == 4

\* ------------------------------------------------------- vocabulary
Propagation == {"REQUIRES", "REQUIRES_NEW", "NESTED"}

\* Kinds of exception a wrapped function raises.
Kinds == {"E1", "E2"}

\* (rollback_for, no_rollback_for) given to the decorator.
Policies ==
    { [rollback_for |-> {}, no_rollback_for |-> {}],
      [rollback_for |-> {}, no_rollback_for |-> {"E1"}] }

\* Decorator arguments with a rollback_for list: alone, together with a
\* no_rollback_for list naming the same kind, and wider than the
\* no_rollback_for list.
Rules ==
    { [rollback_for |-> {"E1"}, no_rollback_for |-> {}],
      [rollback_for |-> {"E1"}, no_rollback_for |-> {"E1"}],
      [rollback_for |-> {"E1", "E2"}, no_rollback_for |-> {"E2"}] }

NoSession == 0
NoExc == "none"

\* ------------------------------------------------- transaction context
add_session_to_context(st, s) == Append(st, s)

\* Fault variant: the oldest entry is removed.
remove_oldest_from_context(st) == SubSeq(st, 2, Len(st))

remove_session_from_context(st) == SubSeq(st, 1, Len(st) - 1)

\* get_session_from_context raises ValueError on an empty stack; the
\* wrapper turns that into current_session = None.
get_session_from_context(st) == IF Len(st) = 0 THEN NoSession ELSE st[Len(st)]

get_session_stack_size(st) == Len(st)

\* A transaction is active when some session is current.
has_active_transaction(st) == get_session_from_context(st) # NoSession

\* Sessions that test code pushes by hand.
PushArgs == {1, 2}

\* The context primitives called directly, as the tests of the stack
\* utilities do; each call is recorded with its argument or its result.
StackPush(s) ==
    /\ Len(ops) < MaxOps
    /\ stack' = add_session_to_context(stack, s)
    /\ ops' = Append(ops, [op |-> "push", value |-> s])
    /\ UNCHANGED <<frames, sessions, scoped, db, objs, muts, calls,
                   manager, idle, kwarg, legacy>>

\* remove_session_from_context on an empty stack is a fatal error; the
\* tests never do it.
StackPop ==
    /\ Len(ops) < MaxOps
    /\ Len(stack) > 0
    /\ stack' = remove_session_from_context(stack)
    /\ ops' = Append(ops, [op |-> "pop", value |-> 0])
    /\ UNCHANGED <<frames, sessions, scoped, db, objs, muts, calls,
                   manager, idle, kwarg, legacy>>

StackPeek ==
    /\ Len(ops) < MaxOps
    /\ ops' = Append(ops, [op |-> "peek",
                           value |-> get_session_from_context(stack)])
    /\ UNCHANGED <<stack, frames, sessions, scoped, db, objs, muts, calls,
                   manager, idle, kwarg, legacy>>

StackSize ==
    /\ Len(ops) < MaxOps
    /\ ops' = Append(ops, [op |-> "size",
                           value |-> get_session_stack_size(stack)])
    /\ UNCHANGED <<stack, frames, sessions, scoped, db, objs, muts, calls,
                   manager, idle, kwarg, legacy>>

\* ------------------------------------------------------------ session
NewSessionState ==
    [ is_active |-> TRUE, autoflush |-> TRUE,
      new |-> {}, dirty |-> {}, deleted |-> {},
      idmap |-> {},          \* identity map: persistent objects
      flushed |-> {},        \* rows written in the open transaction
      savepoints |-> <<>>,   \* open savepoints, innermost last
      spn |-> 0,             \* savepoints opened so far
      closes |-> 0,          \* close() calls issued by the engine
      touched |-> FALSE,     \* some function added, modified or deleted
      broken |-> FALSE ]     \* the connection is lost: close() will raise

SessFlush(s) ==
    [s EXCEPT !.flushed = (s.flushed \cup s.new) \ s.deleted,
              !.idmap = (s.idmap \cup s.new) \ s.deleted,
              !.new = {}, !.dirty = {}, !.deleted = {}]

\* Session.commit: flush, then commit the outermost transaction.
SessCommit(s) ==
    [SessFlush(s) EXCEPT !.flushed = {}, !.savepoints = <<>>]

CommittedRows(s) == SessFlush(s).flushed

\* Session.rollback: rolls back the outermost transaction, discarding
\* every savepoint; pending objects and rows of the transaction go.
SessRollback(s) ==
    [s EXCEPT !.new = {}, !.dirty = {}, !.deleted = {},
              !.idmap = s.idmap \ s.flushed,
              !.flushed = {}, !.savepoints = <<>>]

SessClose(s) ==
    [s EXCEPT !.new = {}, !.dirty = {}, !.deleted = {},
              !.idmap = {}, !.flushed = {}, !.savepoints = <<>>,
              !.closes = s.closes + 1]

SessExpunge(s, os) ==
    [s EXCEPT !.new = s.new \ os, !.dirty = s.dirty \ os,
              !.deleted = s.deleted \ os, !.idmap = s.idmap \ os]

\* Session.begin_nested: flushes, then opens a savepoint.
SessBeginNested(s) ==
    LET t == SessFlush(s)
    IN [t EXCEPT !.spn = s.spn + 1,
                 !.savepoints = Append(t.savepoints,
                     [id |-> s.spn + 1, flushed |-> t.flushed, idmap |-> t.idmap])]

SavepointIndex(s, sp) ==
    CHOOSE i \in 1..Len(s.savepoints) : s.savepoints[i].id = sp

SavepointActive(s, sp) ==
    \E i \in 1..Len(s.savepoints) : s.savepoints[i].id = sp

SavepointRollback(s, sp) ==
    LET i == SavepointIndex(s, sp)
    IN [s EXCEPT !.new = {}, !.dirty = {}, !.deleted = {},
                 !.flushed = s.savepoints[i].flushed,
                 !.idmap = s.savepoints[i].idmap,
                 !.savepoints = SubSeq(s.savepoints, 1, i - 1)]

SavepointCommit(s, sp) ==
    LET i == SavepointIndex(s, sp)
        t == SessFlush(s)
    IN [t EXCEPT !.savepoints = SubSeq(s.savepoints, 1, i - 1)]


\* ---------------------------------------------------- session provider
\* SessionManager.get_new_async_session(force): the session handed out,
\* whether a scoped handle comes with it, and the provider state after.
\* Non-forced: the scoped registry's session for the current scope (the
\* same instance when one is bound already).  Forced: a brand-new
\* session made by the factory, outside the registry, with no handle.
get_new_async_session(force, ss, reg) ==
    IF ~force /\ reg # NoSession
    THEN [session |-> reg, scoped_ |-> TRUE, sessions |-> ss, registry |-> reg]
    ELSE [session |-> Len(ss) + 1, scoped_ |-> ~force,
          sessions |-> Append(ss, NewSessionState),
          registry |-> IF force THEN reg ELSE Len(ss) + 1]

\* scoped_.remove(): releases the registry's session and unbinds it.
ScopedRemove(ss, reg) ==
    IF reg = NoSession THEN ss
    ELSE [ss EXCEPT ![reg] = [SessClose(@) EXCEPT !.closes = ss[reg].closes]]

\* ------------------------------------------------------------ helpers
\* __check_is_commit: TRUE when the exception must NOT roll back.
check_is_commit(e, rollback_for, no_rollback_for) ==
    IF e \in no_rollback_for THEN TRUE
    ELSE IF rollback_for # {} THEN e \notin rollback_for
    ELSE FALSE

\* a_get_current_session_objects: the identity map's members.
a_get_current_session_objects(s) == s.idmap

has_pending_changes(s) == s.new # {} \/ s.dirty # {} \/ s.deleted # {}

\* reset_savepoint_objects: expunge what joined the identity map since
\* the snapshot.
reset_savepoint_objects(s, snapshot) ==
    SessExpunge(s, a_get_current_session_objects(s) \ snapshot)

\* -------------------------------------------------------------- frames
\* A frame is one decorated call in progress.  The fields up to `exc` are
\* the locals of async_wrapper / _a_do_fn_with_tx; the rest record what
\* the call has done so far.
Frame(prop, ro, pol) ==
    [ propagation |-> prop, read_only |-> ro,
      rollback_for |-> pol.rollback_for,
      no_rollback_for |-> pol.no_rollback_for,
      is_session_owner |-> FALSE, auto_flush |-> FALSE,
      sess_ |-> NoSession, scoped_ |-> FALSE, save_point |-> 0,
      kwargs_session |-> kwarg,   \* kwargs["session"] as the caller passed it
      session |-> NoSession,      \* kwargs["session"] as the function gets it
      object_snapshots |-> {}, origin_autoflush |-> TRUE,
      pc |-> "func",              \* func: the function runs; done: call over
      exc |-> NoExc,              \* exception in flight / leaving the call
      entry_stack |-> stack,      \* context stack at call entry
      raised |-> NoExc,           \* exception that left the wrapped function
      exc_src |-> "none",         \* whose exception: self, or a child's mode
      pending_at_return |-> FALSE,\* pending changes when the function returned
      ambient_at_entry |-> <<>>,  \* REQUIRES_NEW: the ambient session's state
      added |-> {},               \* SpecSeen: objects its function added
      inner |-> <<>>,             \* SpecSeen: outcomes of the calls it made
      evicted |-> <<>>,           \* SpecEvict: identity map before each rollback
      log |-> <<>> ]              \* what the engine did for this call, in order

\* Log entry of a request to the session provider.
ProviderEvent(force) ==
    IF force THEN "get_new_async_session(force)" ELSE "get_new_async_session"

Depth == Len(frames)

Top == frames[Depth]

\* A decorated call can be made by the top-level caller or by the wrapped
\* function that is running.
CanCall ==
    /\ calls < MaxCalls
    /\ (Depth > 0 => Top.pc = "func")

\* init_manager(scoped_session): the application registers its session
\* factory, once, outside every decorated call.
init_manager ==
    /\ ~manager
    /\ Depth = 0
    /\ manager' = TRUE
    /\ UNCHANGED <<stack, frames, sessions, scoped, db, objs, muts, calls,
                   idle, ops, kwarg, legacy>>

\* Fault variant: the provider falls back to a factory of its own.
ProviderReadyAlways == TRUE

\* SessionHandler.get_manager(): a manager has been registered.
ProviderReady == manager

\* Fault variant: a session passed by the caller is kept.
InjectSessionIfAbsent(passed, resolved) ==
    IF passed # NoSession THEN passed ELSE resolved

\* lines 50 / 154: kwargs["session"] = sess_
InjectSession(passed, resolved) == resolved

\* The caller passes an existing session explicitly, in the session
\* keyword, to the decorated calls it makes from now on.
PassSession(k) ==
    /\ k \in 1..Len(sessions)
    /\ kwarg # k
    /\ Depth > 0 => Top.pc = "func"
    /\ kwarg' = k
    /\ UNCHANGED <<stack, frames, sessions, scoped, db, objs, muts, calls,
                   manager, idle, ops, legacy>>

\* _a_do_fn_with_tx, lines 35-50: push, snapshot, remember and (read-only)
\* switch off autoflush, inject the session and start the function.
a_do_fn_enter(f, ss) ==
    /\ stack' = add_session_to_context(stack, f.sess_)
    /\ sessions' = [ss EXCEPT ![f.sess_].autoflush =
                        IF f.read_only THEN FALSE ELSE @]
    /\ frames' = Append(frames,
          [f EXCEPT !.object_snapshots = a_get_current_session_objects(ss[f.sess_]),
                    !.origin_autoflush = ss[f.sess_].autoflush,
                    !.session = InjectSession(f.kwargs_session, f.sess_),
                    !.log = f.log \o <<"push", "func">>])
    /\ calls' = calls + 1

\* Fault variant: REQUIRES_NEW asks the provider without forcing.
RequiresNewNoForce == FALSE

\* line 135: force=True
RequiresNewForce == TRUE

\* REQUIRES with an ambient session: join it (async_wrapper 101-112).
CallRequiresBorrower(ro, pol) ==
    /\ CanCall
    /\ get_session_from_context(stack) # NoSession
    /\ a_do_fn_enter([Frame("REQUIRES", ro, pol) EXCEPT
                          !.sess_ = get_session_from_context(stack),
                          !.is_session_owner = FALSE,
                          !.auto_flush = TRUE,
                          !.log = <<"peek">>],
                     sessions)
    /\ UNCHANGED <<scoped, db, objs, muts, outside>>

\* A REQUIRES call made by the function of a NESTED call: it joins the
\* ambient session the savepoint was opened on (101-112).  Such a call may
\* be one more than MaxCalls, so that owner, NESTED and borrower nest.
CallRequiresInNested(ro, pol) ==
    /\ Depth > 1
    /\ Top.pc = "func" /\ Top.propagation = "NESTED"
    /\ calls <= MaxCalls
    /\ get_session_from_context(stack) # NoSession
    /\ a_do_fn_enter([Frame("REQUIRES", ro, pol) EXCEPT
                          !.sess_ = get_session_from_context(stack),
                          !.is_session_owner = FALSE,
                          !.auto_flush = TRUE,
                          !.log = <<"peek">>],
                     sessions)
    /\ UNCHANGED <<scoped, db, objs, muts, outside>>

\* REQUIRES with an empty context stack: own a new session (114-132).
CallRequiresOwner(ro, pol) ==
    /\ CanCall
    /\ get_session_from_context(stack) = NoSession
    /\ ProviderReady
    /\ LET got == get_new_async_session(FALSE, sessions, scoped)
       IN /\ a_do_fn_enter([Frame("REQUIRES", ro, pol) EXCEPT
                                !.sess_ = got.session,
                                !.scoped_ = got.scoped_,
                                !.is_session_owner = TRUE,
                                !.auto_flush = FALSE,
                                !.log = <<"peek", ProviderEvent(FALSE)>>],
                           got.sessions)
          /\ scoped' = got.registry
    /\ UNCHANGED <<db, objs, muts, outside>>

\* REQUIRES_NEW: always own a forced new session (134-142).
CallRequiresNew(ro, pol) ==
    /\ CanCall
    /\ ProviderReady
    /\ LET got == get_new_async_session(RequiresNewForce, sessions, scoped)
       IN /\ a_do_fn_enter([Frame("REQUIRES_NEW", ro, pol) EXCEPT
                                !.sess_ = got.session,
                                !.scoped_ = got.scoped_,
                                !.is_session_owner = TRUE,
                                !.auto_flush = FALSE,
                                !.ambient_at_entry =
                                    IF get_session_from_context(stack) = NoSession
                                    THEN <<>>
                                    ELSE <<sessions[get_session_from_context(stack)]>>,
                                !.log = <<"peek", ProviderEvent(RequiresNewForce)>>],
                           got.sessions)
          /\ scoped' = got.registry
    /\ UNCHANGED <<db, objs, muts, outside>>

\* An owner branch taken before init_manager: the request to the provider
\* at line 116 / 135 raises a configuration error.  The request stands
\* outside every try block and before _a_do_fn_with_tx is entered, so
\* nothing else runs.  The frame exists only to carry the error.
CallOwnerNoManager(prop, ro, pol) ==
    /\ CanCall
    /\ ~ProviderReady
    /\ prop = "REQUIRES" => get_session_from_context(stack) = NoSession
    /\ frames' = Append(frames, [Frame(prop, ro, pol) EXCEPT
                                    !.pc = "done",
                                    !.exc = "ConfigurationError",
                                    !.exc_src = "engine",
                                    !.log = <<"peek",
                                        ProviderEvent(prop = "REQUIRES_NEW")>>])
    /\ calls' = calls + 1
    /\ UNCHANGED <<stack, sessions, scoped, db, objs, muts, outside>>

\* Fault variant: NESTED with no ambient session starts a transaction of
\* its own, as REQUIRES does.
CallNestedFallsBack(ro, pol) ==
    /\ CanCall
    /\ get_session_from_context(stack) = NoSession
    /\ LET got == get_new_async_session(FALSE, sessions, scoped)
       IN /\ a_do_fn_enter([Frame("NESTED", ro, pol) EXCEPT
                                !.sess_ = got.session,
                                !.scoped_ = got.scoped_,
                                !.log = <<"peek", ProviderEvent(FALSE)>>],
                           got.sessions)
          /\ scoped' = got.registry
    /\ UNCHANGED <<db, objs, muts, outside>>

\* NESTED with no ambient session: ValueError before anything else
\* (144-146).  The frame exists only to carry the error to the caller.
CallNestedNoTransaction(ro, pol) ==
    /\ CanCall
    /\ get_session_from_context(stack) = NoSession
    /\ frames' = Append(frames, [Frame("NESTED", ro, pol) EXCEPT
                                    !.pc = "done", !.exc = "ValueError",
                                    !.exc_src = "engine",
                                    !.log = <<"peek">>])
    /\ calls' = calls + 1
    /\ UNCHANGED <<stack, sessions, scoped, db, objs, muts, outside>>

\* NESTED inside a transaction: open a savepoint on the ambient session,
\* snapshot, inject the ambient session (148-155).
CallNested(ro, pol) ==
    /\ CanCall
    /\ get_session_from_context(stack) # NoSession
    /\ LET cur == get_session_from_context(stack)
           s == SessBeginNested(sessions[cur])
       IN /\ sessions' = [sessions EXCEPT ![cur] = s]
          /\ frames' = Append(frames, [Frame("NESTED", ro, pol) EXCEPT
                            !.sess_ = cur,
                            !.save_point = s.spn,
                            !.object_snapshots = a_get_current_session_objects(s),
                            !.origin_autoflush = s.autoflush,
                            !.session = InjectSession(kwarg, cur),
                            !.log = <<"peek", "begin_nested", "func">>])
    /\ calls' = calls + 1
    /\ UNCHANGED <<stack, scoped, db, objs, muts, outside>>

\* ------------------------------------------------ the wrapped function
\* The function works on the session it finds in its session keyword.
Running == Depth > 0 /\ Top.pc = "func"

\* session.add(obj)
FnAdd ==
    /\ Running
    /\ muts < MaxMuts
    /\ muts' = muts + 1
    /\ objs' = Append(objs, Top.session)
    /\ sessions' = [sessions EXCEPT ![Top.session].new = @ \cup {Len(objs) + 1},
                                    ![Top.session].touched = TRUE]
    /\ UNCHANGED <<stack, frames, scoped, db, calls, outside>>

\* an attribute of a persistent object is changed
FnModify ==
    /\ Running
    /\ muts < MaxMuts
    /\ muts' = muts + 1
    /\ \E o \in sessions[Top.session].idmap \ (sessions[Top.session].dirty
                                              \cup sessions[Top.session].deleted) :
          sessions' = [sessions EXCEPT ![Top.session].dirty = @ \cup {o},
                                       ![Top.session].touched = TRUE]
    /\ UNCHANGED <<stack, frames, scoped, db, objs, calls, outside>>

\* session.delete(obj)
FnDelete ==
    /\ Running
    /\ muts < MaxMuts
    /\ muts' = muts + 1
    /\ \E o \in sessions[Top.session].idmap \ sessions[Top.session].deleted :
          sessions' = [sessions EXCEPT ![Top.session].deleted = @ \cup {o},
                                       ![Top.session].dirty = @ \ {o},
                                       ![Top.session].touched = TRUE]
    /\ UNCHANGED <<stack, frames, scoped, db, objs, calls, outside>>

\* await session.flush() written in the function itself
FnFlush ==
    /\ Running
    /\ has_pending_changes(sessions[Top.session])
    /\ sessions' = [sessions EXCEPT ![Top.session] = SessFlush(@)]
    /\ UNCHANGED <<stack, frames, scoped, db, objs, muts, calls, outside>>

\* The connection of the session the function runs on is lost while the
\* function runs; the function itself goes on.  Closing the session will
\* raise.
FnBreak ==
    /\ Running
    /\ ~sessions[Top.session].broken
    /\ sessions' = [sessions EXCEPT ![Top.session].broken = TRUE]
    /\ UNCHANGED <<stack, frames, scoped, db, objs, muts, calls, outside>>

\* ------------------------------------------- the engine after the call
\* What the engine works on once the function is over: the sessions, the
\* context stack, the database, the scoped registry and the call's frame.
\* The steps below are the blocks of the code, in the order the code runs
\* them; nothing else runs in between, so one action applies them all.
\* `ev` collects, for an observer, one entry per rollback the engine
\* issues: the identity map as the engine found it when it turned to
\* rolling back, and as it was when the rollback was issued.
Machine(f) ==
    [ss |-> sessions, st |-> stack, db |-> db, reg |-> scoped, f |-> f,
     ev |-> <<>>]

\* A rollback is issued on session `left`, which was `found` before the
\* eviction, if any.
Evicted(m, found, left) ==
    [m EXCEPT !.ev = Append(@, [attached |-> found.idmap, left |-> left.idmap,
                                pending |-> left.new])]

Did(m, what) == [m EXCEPT !.f.log = Append(@, what)]

\* Fault variant: the read-only test of line 53 inverted.
CommitGuardInverted(f, s) == f.is_session_owner /\ f.read_only /\ s.is_active

\* Fault variant: the owner commits whether or not the call is read-only.
CommitGuardIgnoresReadOnly(f, s) == f.is_session_owner /\ s.is_active

\* line 53
CommitGuard(f, s) == f.is_session_owner /\ ~f.read_only /\ s.is_active

\* Fault variant: only the new-object set is looked at.
FlushGuardNewOnly(f, s) ==
    /\ ~f.is_session_owner /\ s.is_active /\ f.auto_flush
    /\ s.new # {}

\* Fault variant: the borrower flushes whether or not anything is pending.
FlushGuardNoPendingCheck(f, s) ==
    ~f.is_session_owner /\ s.is_active /\ f.auto_flush

\* lines 55-56
FlushGuard(f, s) ==
    /\ ~f.is_session_owner /\ s.is_active /\ f.auto_flush
    /\ (s.dirty # {} \/ s.new # {} \/ s.deleted # {})

\* Fault variant: the is_active test of line 68 inverted.
RollbackGuardInverted(f, s) == ~s.is_active

\* line 68
RollbackGuard(f, s) == s.is_active

\* Fault variant: the session is closed only when no exception is leaving.
CloseGuardOnSuccess(f) == f.is_session_owner /\ f.exc = NoExc

\* Fault variant: the session is closed whoever owns it.
CloseGuardAlways(f) == TRUE

\* Fault variant: only a REQUIRES owner closes its session.
CloseGuardNotForNew(f) == f.is_session_owner /\ f.propagation = "REQUIRES"

\* line 74
CloseGuard(f) == f.is_session_owner

\* Fault variant: the context entry is left on the stack.
PopContextNoPop(st) == st

\* line 77
PopContext(st) == remove_session_from_context(st)

\* lines 53-57: the function returned; commit (owner) or flush (borrower).
AfterReturn(m) ==
    LET f == m.f
        s == m.ss[f.sess_]
    IN IF CommitGuard(f, s)
       THEN Did([m EXCEPT !.db = @ \cup CommittedRows(s),
                          !.ss[f.sess_] = SessCommit(s)], "commit")
       ELSE IF FlushGuard(f, s)
       THEN Did([m EXCEPT !.ss[f.sess_] = SessFlush(s)], "flush")
       ELSE m

\* Fault variant: the raise of line 60 is missing.
SwallowGuardAlways(f) == TRUE

\* Fault variant: an exception named in rollback_for is re-raised even
\* when no_rollback_for names it too.
SwallowGuardRollbackWins(f) ==
    /\ check_is_commit(f.exc, f.rollback_for, f.no_rollback_for)
    /\ f.exc \notin f.rollback_for

\* line 59, negated: the exception is not re-raised
SwallowGuard(f) == check_is_commit(f.exc, f.rollback_for, f.no_rollback_for)

\* lines 58-62: an exception classified as no-rollback is not re-raised
\* and the call returns result (None); any other is re-raised.
InnerExcept(m) ==
    IF SwallowGuard(m.f)
    THEN Did([m EXCEPT !.f.exc = NoExc], "swallow")
    ELSE m

\* Fault variant: the eviction is given an empty snapshot.
ResetSnapshotEmpty(f) == {}

\* lines 66 / 164: the snapshot handed to reset_savepoint_objects
ResetSnapshot(f) == f.object_snapshots

\* lines 63-70: evict what the call added, roll the session back, re-raise.
OuterExcept(m) ==
    LET f == m.f
        s == reset_savepoint_objects(m.ss[f.sess_], ResetSnapshot(f))
        r == Did(Evicted(m, m.ss[f.sess_], s), "reset")
    IN IF RollbackGuard(f, s)
       THEN Did([r EXCEPT !.ss[f.sess_] = SessRollback(s)], "rollback")
       ELSE [r EXCEPT !.ss[f.sess_] = s]

\* Fault variant: autoflush is left as the call set it.
RestoreAutoflushNever(f, s) == s.autoflush

\* line 73
RestoreAutoflush(f, s) == f.origin_autoflush

\* await sess_.close() raises.
CloseRaises(s) == s.broken

\* lines 72-77: restore autoflush, close an owned session, pop the context.
\* The three statements follow one another with no try around any of them:
\* when close() raises at line 75, its exception replaces the one in
\* flight and line 77 is not reached.
Finally(m) ==
    LET f == m.f
        s == [m.ss[f.sess_] EXCEPT !.autoflush =
                                      RestoreAutoflush(f, m.ss[f.sess_])]
        closed == IF CloseGuard(f)
                  THEN Did([m EXCEPT !.ss[f.sess_] = SessClose(s)], "close")
                  ELSE [m EXCEPT !.ss[f.sess_] = s]
    IN IF CloseGuard(f) /\ CloseRaises(s)
       THEN Did([m EXCEPT !.ss[f.sess_] = s, !.f.exc = "CloseError",
                          !.f.exc_src = "engine"], "close")
       ELSE Did([closed EXCEPT !.st = PopContext(@)], "pop")

\* Fault variant: the handle is torn down only when the call succeeds.
RemoveGuardOnSuccess(f) == f.scoped_ /\ f.exc = NoExc

\* lines 131 / 141: scoped_ is not None
RemoveGuard(f) == f.scoped_

\* async_wrapper 129-132 / 140-142: the owner branches' finally.
WrapperFinally(m) ==
    IF RemoveGuard(m.f)
    THEN Did([m EXCEPT !.ss = ScopedRemove(m.ss, m.reg),
                       !.reg = NoSession], "remove")
    ELSE m

\* asyncio.CancelledError: a BaseException that is not an Exception.
Cancelled == "CancelledError"

\* lines 58, 63, 162: `except Exception` handles e
ExceptException(e) == e # Cancelled

\* _a_do_fn_with_tx from line 53 to its end, then the owner branch's
\* finally.  m.f.exc is the exception that left the function, if any.
DoFnExit(m) ==
    LET inner == IF m.f.exc = NoExc THEN AfterReturn(m)
                 ELSE IF ExceptException(m.f.exc) THEN InnerExcept(m)
                 ELSE m
        outer == IF inner.f.exc # NoExc /\ ExceptException(inner.f.exc)
                 THEN OuterExcept(inner)
                 ELSE inner
        fin == Finally(outer)
    IN IF fin.f.is_session_owner THEN WrapperFinally(fin) ELSE fin

\* line 157
NestedFlushGuard(f, s) == ~f.read_only /\ has_pending_changes(s)

\* Fault variant: the except block of the NESTED branch never rolls back.
NestedRollbackGuardNever(f, s) == FALSE

\* line 163
NestedRollbackGuard(f, s) ==
    /\ SavepointActive(s, f.save_point)
    /\ ~check_is_commit(f.exc, f.rollback_for, f.no_rollback_for)

\* lines 157-160
NestedAfterReturn(m) ==
    LET f == m.f
        s == m.ss[f.sess_]
    IN IF NestedFlushGuard(f, s)
       THEN Did([m EXCEPT !.ss[f.sess_] = SessFlush(s)], "flush")
       ELSE m

\* lines 162-167: roll the savepoint back on a rollback trigger; always
\* re-raise.
NestedExcept(m) ==
    LET f == m.f
        s == m.ss[f.sess_]
        t == reset_savepoint_objects(s, ResetSnapshot(f))
    IN IF NestedRollbackGuard(f, s)
       THEN Did([Did(Evicted(m, s, t), "reset") EXCEPT !.ss[f.sess_] =
                    SavepointRollback(t, f.save_point)], "savepoint.rollback")
       ELSE m

\* Fault variant: the read-only test of line 171 inverted.
NestedReleaseGuardInverted(f) == f.read_only

\* Fault variant: an active savepoint is always released.
NestedReleaseGuardAlways(f) == TRUE

\* line 171, negated: the savepoint is released rather than rolled back
NestedReleaseGuard(f) == ~f.read_only

\* Fault variant: the finally block leaves the savepoint alone.
NestedFinallyGuardNever(f, s) == FALSE

\* line 170
NestedFinallyGuard(f, s) == SavepointActive(s, f.save_point)

\* lines 168-175: end a savepoint that is still active.
NestedFinally(m) ==
    LET f == m.f
        s == m.ss[f.sess_]
    IN IF NestedFinallyGuard(f, s)
       THEN IF ~NestedReleaseGuard(f)
            THEN Did([Evicted(m, s, s) EXCEPT !.ss[f.sess_] =
                         SavepointRollback(s, f.save_point)],
                     "savepoint.rollback")
            ELSE Did([m EXCEPT !.ss[f.sess_] =
                         SavepointCommit(s, f.save_point)],
                     "savepoint.commit")
       ELSE m

\* The NESTED branch from line 157 to its end.
NestedExit(m) ==
    NestedFinally(IF m.f.exc = NoExc THEN NestedAfterReturn(m)
                  ELSE IF ExceptException(m.f.exc) THEN NestedExcept(m)
                  ELSE m)

\* The function of frame i is over (m.f is that frame, with the exception
\* that left the function, if any): the engine finishes the call.
Exit(m0) ==
    IF m0.f.propagation = "NESTED" THEN NestedExit(m0) ELSE DoFnExit(m0)

EndCall(i, m0) ==
    LET m == Exit(m0)
    IN /\ frames' = [k \in 1..i |->
                        IF k = i THEN [m.f EXCEPT !.pc = "done"] ELSE frames[k]]
       /\ sessions' = m.ss
       /\ stack' = m.st
       /\ db' = m.db
       /\ scoped' = m.reg

\* EndCall with the evictions it made kept in the frame.
EndCallSeen(i, m0) ==
    LET m == Exit(m0)
    IN /\ frames' = [k \in 1..i |->
                        IF k = i THEN [m.f EXCEPT !.pc = "done", !.evicted = m.ev]
                        ELSE frames[k]]
       /\ sessions' = m.ss
       /\ stack' = m.st
       /\ db' = m.db
       /\ scoped' = m.reg

\* the function returns
FnReturn ==
    /\ Running
    /\ EndCall(Depth, Machine([Top EXCEPT !.pending_at_return =
                                   has_pending_changes(sessions[Top.sess_])]))
    /\ UNCHANGED <<objs, muts, calls, outside>>

\* the function raises
FnRaise(e) ==
    /\ Running
    /\ EndCall(Depth, Machine([Top EXCEPT !.exc = e, !.raised = e,
                                          !.exc_src = "self"]))
    /\ UNCHANGED <<objs, muts, calls, outside>>

\* the task is cancelled while the function waits at an await
FnCancel ==
    /\ Running
    /\ EndCall(Depth, Machine([Top EXCEPT !.exc = Cancelled,
                                          !.raised = Cancelled,
                                          !.exc_src = "self"]))
    /\ UNCHANGED <<objs, muts, calls, outside>>

\* ------------------------------------------------- back in the caller
\* How a child call appears to the function that awaited it.
ChildSrc(f) ==
    IF f.propagation = "REQUIRES" /\ ~f.is_session_owner THEN "borrower"
    ELSE f.propagation

Finished == Depth > 0 /\ Top.pc = "done"

\* The call is over and its caller goes on: the call returned, or the
\* caller handled its exception (the top-level caller always does).
Return ==
    /\ Finished
    /\ frames' = SubSeq(frames, 1, Depth - 1)
    /\ UNCHANGED <<stack, sessions, scoped, db, objs, muts, calls, outside>>

\* The call's exception is not handled by the calling function: it leaves
\* that function as the same exception and ends the calling call.
Propagate ==
    /\ Finished
    /\ Depth > 1
    /\ Top.exc # NoExc
    /\ EndCall(Depth - 1, Machine([frames[Depth - 1] EXCEPT
                                      !.exc = Top.exc, !.raised = Top.exc,
                                      !.exc_src = ChildSrc(Top)]))
    /\ UNCHANGED <<objs, muts, calls, outside>>

\* ------------------------------------------------ two logical executions
\* Two asyncio tasks, each started outside every transaction, share the
\* event loop: one runs, the other is suspended at an await of the function
\* it is in (or has not started, or is between calls); `idle` holds the
\* suspended task's transaction context, its decorated calls in progress
\* and the session its scope has in the scoped registry
\* (scopefunc = asyncio.current_task).
\* Fault variant: the context stack is one global shared by all tasks.
TaskContextShared(own, current) == current

\* transaction_context is task-local: the task that resumes finds the
\* stack it left.
TaskContext(own, current) == own

\* The running task reaches an await and the event loop resumes the other.
Switch ==
    /\ Depth > 0 => Top.pc = "func"
    /\ stack' = TaskContext(idle.stack, stack)
    /\ frames' = idle.frames
    /\ scoped' = idle.scoped
    /\ idle' = [stack |-> stack, frames |-> frames, scoped |-> scoped]
    /\ UNCHANGED <<sessions, db, objs, muts, calls, manager, ops, kwarg,
                   legacy>>

\* ------------------------------------------------- what callers have seen
\* SpecSeen is Spec with a record kept of what each function added and of
\* how the calls it made ended; the engine's steps are the same.
\* The exception that left the function of call f is a rollback trigger
\* under the call's rollback_for / no_rollback_for.
RollbackTrigger(f) ==
    /\ f.raised # NoExc
    /\ ~check_is_commit(f.raised, f.rollback_for, f.no_rollback_for)

\* What the calling function has seen of a call that is over: its mode,
\* what left its function (a rollback trigger or not) and what left the
\* call, its session and the objects its function added.
Outcome(f) ==
    [ src |-> ChildSrc(f), read_only |-> f.read_only,
      raised |-> f.raised, rollback_trigger |-> RollbackTrigger(f),
      exc_src |-> f.exc_src,
      exc |-> f.exc, sess_ |-> f.sess_, added |-> f.added ]

\* session.add(obj), remembered by the call
FnAddSeen ==
    /\ Running
    /\ muts < MaxMuts
    /\ muts' = muts + 1
    /\ objs' = Append(objs, Top.session)
    /\ sessions' = [sessions EXCEPT ![Top.session].new = @ \cup {Len(objs) + 1},
                                    ![Top.session].touched = TRUE]
    /\ frames' = [frames EXCEPT ![Depth].added = @ \cup {Len(objs) + 1}]
    /\ UNCHANGED <<stack, scoped, db, calls, outside>>

ReturnSeen ==
    /\ Finished
    /\ frames' = IF Depth = 1 THEN <<>>
                  ELSE [SubSeq(frames, 1, Depth - 1) EXCEPT
                           ![Depth - 1].inner = Append(@, Outcome(Top))]
    /\ UNCHANGED <<stack, sessions, scoped, db, objs, muts, calls, outside>>

PropagateSeen ==
    /\ Finished
    /\ Depth > 1
    /\ Top.exc # NoExc
    /\ EndCall(Depth - 1, Machine([frames[Depth - 1] EXCEPT
                                      !.exc = Top.exc, !.raised = Top.exc,
                                      !.exc_src = ChildSrc(Top),
                                      !.inner = Append(@, Outcome(Top))]))
    /\ UNCHANGED <<objs, muts, calls, outside>>

\* the function raises; the evictions of the call are kept
FnRaiseEvict(e) ==
    /\ Running
    /\ EndCallSeen(Depth, Machine([Top EXCEPT !.exc = e, !.raised = e,
                                              !.exc_src = "self"]))
    /\ UNCHANGED <<objs, muts, calls, outside>>

\* the function returns; the evictions of the call (none) are kept
FnReturnEvict ==
    /\ Running
    /\ EndCallSeen(Depth, Machine([Top EXCEPT !.pending_at_return =
                                       has_pending_changes(sessions[Top.sess_])]))
    /\ UNCHANGED <<objs, muts, calls, outside>>

PropagateEvict ==
    /\ Finished
    /\ Depth > 1
    /\ Top.exc # NoExc
    /\ EndCallSeen(Depth - 1, Machine([frames[Depth - 1] EXCEPT
                                          !.exc = Top.exc, !.raised = Top.exc,
                                          !.exc_src = ChildSrc(Top)]))
    /\ UNCHANGED <<objs, muts, calls, outside>>

\* -------------------------------------------------------- specification
Init ==
    /\ stack = <<>>
    /\ frames = <<>>
    /\ sessions = <<>>
    /\ scoped = NoSession
    /\ db = {}
    /\ objs = <<>>
    /\ muts = 0
    /\ calls = 0
    /\ manager = FALSE
    /\ idle = [stack |-> <<>>, frames |-> <<>>, scoped |-> NoSession]
    /\ ops = <<>>
    /\ kwarg = NoSession
    /\ transaction_context = NoSession
    /\ legacy_sessions = <<>>
    /\ legacy_frames = <<>>
    /\ legacy_calls = 0

Next ==
    \/ init_manager
    \/ \E ro \in BOOLEAN, pol \in Policies :
          \/ \E prop \in {"REQUIRES", "REQUIRES_NEW"} :
                CallOwnerNoManager(prop, ro, pol)
          \/ CallRequiresBorrower(ro, pol)
          \/ CallRequiresOwner(ro, pol)
          \/ CallRequiresNew(ro, pol)
          \/ CallNestedNoTransaction(ro, pol)
          \/ CallNested(ro, pol)
    \/ FnAdd \/ FnModify \/ FnDelete \/ FnFlush \/ FnReturn
    \/ \E e \in Kinds : FnRaise(e)
    \/ Return
    \/ Propagate

Spec == Init /\ [][Next]_vars

\* The family of runs SpecSeen follows: one outer transaction, opened by
\* an owner call that is not read-only, whose function adds objects and
\* makes REQUIRES_NEW and NESTED calls.
NextSeen ==
    \/ init_manager
    \/ \E pol \in Policies :
        /\ Depth = 0 /\ calls = 0
        /\ \/ CallRequiresOwner(FALSE, pol)
           \/ CallRequiresNew(FALSE, pol)
    \/ \E ro \in BOOLEAN, pol \in Policies :
        /\ Depth = 1
        /\ \/ CallRequiresNew(ro, pol)
           \/ CallNested(ro, pol)
    \/ FnAddSeen \/ FnFlush \/ FnReturn
    \/ \E e \in Kinds : FnRaise(e)
    \/ ReturnSeen
    \/ PropagateSeen

SpecSeen == Init /\ [][NextSeen]_vars

\* The family of runs SpecRules follows: one transaction opened by an
\* owner call decorated with a rollback_for list, whose function adds
\* objects and makes REQUIRES and NESTED calls decorated likewise.
NextRules ==
    \/ init_manager
    \/ \E ro \in BOOLEAN, pol \in Rules :
        /\ Depth = 0 /\ calls = 0
        /\ \/ CallRequiresOwner(ro, pol)
           \/ CallRequiresNew(ro, pol)
    \/ \E ro \in BOOLEAN, pol \in Rules :
        /\ Depth = 1
        /\ \/ CallRequiresBorrower(ro, pol)
           \/ CallNested(ro, pol)
    \/ FnAddSeen \/ FnReturn
    \/ \E e \in Kinds : FnRaise(e)
    \/ ReturnSeen
    \/ PropagateSeen

SpecRules == Init /\ [][NextRules]_vars

\* Two tasks interleave decorated calls that carry no exception lists;
\* their functions add objects, return and raise.
NextTasks ==
    \/ init_manager
    \/ \E ro \in BOOLEAN, pol \in {[rollback_for |-> {}, no_rollback_for |-> {}]} :
          \/ CallRequiresBorrower(ro, pol)
          \/ CallRequiresOwner(ro, pol)
          \/ CallRequiresNew(ro, pol)
          \/ CallNested(ro, pol)
    \/ FnAdd \/ FnReturn \/ FnRaise("E1")
    \/ Return
    \/ Propagate
    \/ Switch

SpecTasks == Init /\ [][NextTasks]_vars

\* Spec with functions that add objects and make no other change: the
\* runs that the claims on manager set-up, read-only calls, autoflush and
\* the engine's sequence of operations are about.
NextFlags ==
    \/ init_manager
    \/ \E ro \in BOOLEAN, pol \in Policies :
          \/ \E prop \in {"REQUIRES", "REQUIRES_NEW"} :
                CallOwnerNoManager(prop, ro, pol)
          \/ CallRequiresBorrower(ro, pol)
          \/ CallRequiresOwner(ro, pol)
          \/ CallRequiresNew(ro, pol)
          \/ CallNestedNoTransaction(ro, pol)
          \/ CallNested(ro, pol)
    \/ FnAdd \/ FnReturn
    \/ \E e \in Kinds : FnRaise(e)
    \/ Return
    \/ Propagate

SpecFlags == Init /\ [][NextFlags]_vars

\* Calls that carry no exception lists, on sessions whose connection may
\* be lost while a function runs.
NextClose ==
    \/ init_manager
    \/ \E ro \in BOOLEAN, pol \in {[rollback_for |-> {}, no_rollback_for |-> {}]} :
          \/ CallRequiresBorrower(ro, pol)
          \/ CallRequiresOwner(ro, pol)
          \/ CallRequiresNew(ro, pol)
          \/ CallNested(ro, pol)
    \/ FnAdd \/ FnBreak \/ FnReturn \/ FnRaise("E1")
    \/ Return
    \/ Propagate

SpecClose == Init /\ [][NextClose]_vars

\* The family of runs SpecEvict follows: one transaction opened by an
\* owner call, whose function adds objects, flushes by hand and makes
\* REQUIRES, REQUIRES_NEW and NESTED calls whose functions do the same; no
\* exception lists, so every exception is a rollback trigger.
NextEvict ==
    \/ init_manager
    \/ \E ro \in BOOLEAN, pol \in {[rollback_for |-> {}, no_rollback_for |-> {}]} :
          \/ /\ Depth = 0 /\ calls = 0
             /\ CallRequiresOwner(ro, pol)
          \/ /\ Depth = 1
             /\ \/ CallRequiresBorrower(ro, pol)
                \/ CallRequiresNew(ro, pol)
                \/ CallNested(ro, pol)
    \/ FnAdd \/ FnFlush \/ FnReturnEvict \/ FnRaiseEvict("E1")
    \/ Return
    \/ PropagateEvict

SpecEvict == Init /\ [][NextEvict]_vars

\* The family of runs SpecDeep follows: an owner call that is not
\* read-only, whose function adds objects and makes NESTED calls, whose
\* functions add objects and make REQUIRES calls; the inner calls may
\* carry a no_rollback_for list.
NextDeep ==
    \/ init_manager
    \/ \E ro \in BOOLEAN, pol \in Policies :
          \/ /\ Depth = 0 /\ calls = 0
             /\ CallRequiresOwner(FALSE, [rollback_for |-> {}, no_rollback_for |-> {}])
          \/ /\ Depth = 1
             /\ CallNested(ro, pol)
          \/ CallRequiresInNested(ro, pol)
    \/ FnAddSeen \/ FnReturn \/ FnRaise("E1")
    \/ ReturnSeen
    \/ PropagateSeen

SpecDeep == Init /\ [][NextDeep]_vars

\* Calls that carry no exception lists, made by callers that may pass a
\* session of their own in the session keyword.
NextKwarg ==
    \/ init_manager
    \/ \E k \in 1..MaxCalls : PassSession(k)
    \/ \E ro \in BOOLEAN, pol \in {[rollback_for |-> {}, no_rollback_for |-> {}]} :
          \/ CallRequiresBorrower(ro, pol)
          \/ CallRequiresOwner(ro, pol)
          \/ CallRequiresNew(ro, pol)
          \/ CallNested(ro, pol)
    \/ FnAdd \/ FnReturn \/ FnRaise("E1")
    \/ Return
    \/ Propagate

SpecKwarg == Init /\ [][NextKwarg]_vars

\* Calls that carry no exception lists, whose task may be cancelled while
\* a function runs.
NextCancel ==
    \/ init_manager
    \/ \E ro \in BOOLEAN, pol \in {[rollback_for |-> {}, no_rollback_for |-> {}]} :
          \/ CallRequiresBorrower(ro, pol)
          \/ CallRequiresOwner(ro, pol)
          \/ CallRequiresNew(ro, pol)
          \/ CallNested(ro, pol)
    \/ FnAdd \/ FnFlush \/ FnReturn \/ FnRaise("E1") \/ FnCancel
    \/ Return
    \/ Propagate

SpecCancel == Init /\ [][NextCancel]_vars

\* ------------------------------------- the legacy decorator
\* src/src/transactional.py: one current session in transaction_context
\* instead of a stack.  REQUIRES and REQUIRES_NEW, for coroutine functions
\* (wrapper of lines 74-114) and plain functions (lines 121-160).
current == <<stack, frames, sessions, scoped, db, objs, muts, calls,
             manager, idle, ops, kwarg>>

\* A session as the manager hands it out: no transaction begun.
NewLegacySession ==
    [ in_tx |-> FALSE,     \* a transaction is begun and not ended
      txn |-> 0,           \* transactions begun on the session so far
      pending |-> 0,       \* objects added in the current transaction
      committed |-> 0,     \* objects persisted by a commit
      closes |-> 0 ]       \* close() calls

\* handler.get_manager().get_new_session(force): a freshly usable session.
get_new_session(ss) == Append(ss, NewLegacySession)

\* session.begin() / autobegin
LegacyBegin(s) == [s EXCEPT !.in_tx = TRUE, !.txn = @ + 1]

\* tx.commit()
LegacyCommit(s) ==
    [s EXCEPT !.committed = @ + s.pending, !.pending = 0, !.in_tx = FALSE]

\* tx.rollback()
LegacyRollback(s) == [s EXCEPT !.pending = 0, !.in_tx = FALSE]

\* session.close() / aclose(): the transaction in progress is discarded.
LegacyClose(s) == [s EXCEPT !.pending = 0, !.in_tx = FALSE, !.closes = @ + 1]

\* tx.is_active, tx being transaction number n of session s
TxActive(s, n) == s.in_tx /\ s.txn = n

LegacyDepth == Len(legacy_frames)

LegacyTop == legacy_frames[LegacyDepth]

LegacyRunning == LegacyDepth > 0 /\ LegacyTop.pc = "func"

LegacyFinished == LegacyDepth > 0 /\ LegacyTop.pc = "done"

\* lines 97-101 / 144-148: transaction_context.set(current_session) follows
\* the call of _do_fn_with_tx and is reached only when it returns.
RestoresContext(f) == f.propagation = "REQUIRES_NEW" /\ f.exc = NoExc

\* wrapper lines 76-97 and _a_do_fn_with_tx 22-26 (_do_fn_with_tx 43-50):
\* read the context, obtain sessions, begin, set the context, call.
\* AsyncSession.begin() on a session whose transaction is begun raises
\* before the try block is entered; the plain variant takes the
\* transaction that is there (get_transaction()).
LegacyCall(prop, is_async) ==
    /\ legacy_calls < MaxCalls + 1
    /\ LegacyDepth > 0 => LegacyTop.pc = "func"
    /\ (LegacyDepth > 0 /\ ~LegacyTop.is_async) => ~is_async
    /\ LET entry == transaction_context
           is_new == prop = "REQUIRES_NEW"
           ss1 == IF entry = NoSession THEN get_new_session(legacy_sessions)
                  ELSE legacy_sessions
           current_session == IF entry = NoSession THEN Len(ss1) ELSE entry
           ss2 == IF is_new THEN get_new_session(ss1) ELSE ss1
           session == IF is_new THEN Len(ss2) ELSE current_session
           f == [ propagation |-> prop, is_async |-> is_async,
                  entry_context |-> entry,
                  current_session |-> current_session,
                  session |-> session,
                  obtained |-> (IF entry = NoSession THEN {current_session}
                                ELSE {})
                               \cup (IF is_new THEN {session} ELSE {}),
                  tx |-> 0, pc |-> "func", exc |-> NoExc, log |-> <<>> ]
           s == ss2[session]
       IN IF s.in_tx /\ is_async
          THEN /\ legacy_sessions' = ss2
               /\ legacy_frames' =
                     Append(legacy_frames,
                            [f EXCEPT !.pc = "done",
                                      !.exc = "InvalidRequestError",
                                      !.log = <<"begin">>])
               /\ UNCHANGED transaction_context
          ELSE LET b == IF s.in_tx THEN s ELSE LegacyBegin(s)
               IN /\ legacy_sessions' = [ss2 EXCEPT ![session] = b]
                  /\ legacy_frames' =
                        Append(legacy_frames,
                               [f EXCEPT !.tx = b.txn,
                                         !.log = <<"begin", "set", "func">>])
                  /\ transaction_context' = session
    /\ legacy_calls' = legacy_calls + 1
    /\ UNCHANGED current

\* session.add(obj) in the function, on the session of its session keyword
LegacyFnAdd ==
    /\ LegacyRunning
    /\ LET k == LegacyTop.session
           s == legacy_sessions[k]
       IN /\ s.pending + s.committed < MaxMuts
          /\ legacy_sessions' =
                [legacy_sessions EXCEPT ![k] =
                    [(IF s.in_tx THEN s ELSE LegacyBegin(s))
                        EXCEPT !.pending = @ + 1]]
    /\ UNCHANGED <<transaction_context, legacy_frames, legacy_calls, current>>

\* _a_do_fn_with_tx 28-39 (_do_fn_with_tx 52-62) and wrapper 99-101: the
\* function of frame i is over with exception e (NoExc: it returned).
LegacyEnd(i, e) ==
    LET f == [legacy_frames[i] EXCEPT !.exc = e]
        s == legacy_sessions[f.session]
        act == TxActive(s, f.tx)
        t == IF ~act THEN s
             ELSE IF e = NoExc THEN LegacyCommit(s) ELSE LegacyRollback(s)
        did == (IF ~act THEN <<>>
                ELSE IF e = NoExc THEN <<"commit">> ELSE <<"rollback">>)
               \o <<"close", "set(None)">>
               \o (IF RestoresContext(f) THEN <<"set(current_session)">>
                   ELSE <<>>)
    IN /\ legacy_sessions' =
             [legacy_sessions EXCEPT ![f.session] = LegacyClose(t)]
       /\ transaction_context' =
             IF RestoresContext(f) THEN f.current_session ELSE NoSession
       /\ legacy_frames' =
             [k \in 1..i |->
                 IF k = i THEN [f EXCEPT !.pc = "done", !.log = @ \o did]
                 ELSE legacy_frames[k]]

\* the function returns
LegacyFnReturn ==
    /\ LegacyRunning
    /\ LegacyEnd(LegacyDepth, NoExc)
    /\ UNCHANGED <<legacy_calls, current>>

\* the function raises
LegacyFnRaise(e) ==
    /\ LegacyRunning
    /\ LegacyEnd(LegacyDepth, e)
    /\ UNCHANGED <<legacy_calls, current>>

\* The call is over and its caller goes on (it got the result, or handled
\* the exception).
LegacyReturn ==
    /\ LegacyFinished
    /\ legacy_frames' = SubSeq(legacy_frames, 1, LegacyDepth - 1)
    /\ UNCHANGED <<transaction_context, legacy_sessions, legacy_calls, current>>

\* The call's exception is not handled by the calling function.
LegacyPropagate ==
    /\ LegacyFinished
    /\ LegacyDepth > 1
    /\ LegacyTop.exc # NoExc
    /\ LegacyEnd(LegacyDepth - 1, LegacyTop.exc)
    /\ UNCHANGED <<legacy_calls, current>>

NextLegacy ==
    \/ \E prop \in {"REQUIRES", "REQUIRES_NEW"}, is_async \in BOOLEAN :
          LegacyCall(prop, is_async)
    \/ LegacyFnAdd
    \/ LegacyFnReturn
    \/ LegacyFnRaise("E1")
    \/ LegacyReturn
    \/ LegacyPropagate

SpecLegacy == Init /\ [][NextLegacy]_vars

\* The stack utilities exercised on their own.
NextStack ==
    \/ \E s \in PushArgs : StackPush(s)
    \/ StackPop
    \/ StackPeek
    \/ StackSize

SpecStack == Init /\ [][NextStack]_vars

TypeOK ==
    /\ stack \in Seq(Nat)
    /\ Len(sessions) <= MaxCalls
    /\ calls <= MaxCalls + 1
    /\ Len(objs) <= MaxMuts
    /\ db \subseteq 1..Len(objs)
    /\ Depth <= MaxCalls + 1
    /\ \A i \in 1..Depth : frames[i].pc \in {"func", "done"}

\* --------------------------------------------------------------- claims
FrameIds == 1..Depth

IsOwner(f) == f.propagation \in {"REQUIRES", "REQUIRES_NEW"} /\ f.is_session_owner

IsBorrower(f) == f.propagation = "REQUIRES" /\ ~f.is_session_owner

\* The call still has its entry on the context stack.
HoldsEntry(f) ==
    /\ f.propagation \in {"REQUIRES", "REQUIRES_NEW"}
    /\ f.pc = "func"

StackDuring(f) ==
    IF HoldsEntry(f) THEN Append(f.entry_stack, f.sess_) ELSE f.entry_stack

\* Objects that were added to session s.
AddedTo(s) == {o \in 1..Len(objs) : objs[o] = s}

\* How often the engine did `what` for call f.
N(f, what) == Cardinality({k \in 1..Len(f.log) : f.log[k] = what})

\* The engine did `a` for call f, and later `b`.
Before(f, a, b) ==
    \E j \in 1..Len(f.log) :
       /\ f.log[j] = a
       /\ \E k \in (j + 1)..Len(f.log) : f.log[k] = b

\* Requests of call f to the session provider, unforced and forced.
Asked(f) == <<N(f, ProviderEvent(FALSE)), N(f, ProviderEvent(TRUE))>>

\* C1: for every decorated call and every exit path the context stack after
\* the call is the stack it found at entry; while the call runs the stack is
\* its entry stack plus its own entry plus what inner calls pushed, so pushes
\* and pops pair up in LIFO order.
C1_StackRestored ==
    /\ Depth = 0 => stack = <<>>
    /\ \A i \in FrameIds :
          /\ frames[i].pc = "done" => stack = frames[i].entry_stack
          /\ i = Depth => stack = StackDuring(frames[i])
          /\ i < Depth => frames[i + 1].entry_stack = StackDuring(frames[i])
          /\ i = 1 => frames[i].entry_stack = <<>>

\* A borrower call whose exception was swallowed has completed inside an
\* owner call.
C1_Witness ==
    /\ Depth = 2
    /\ IsBorrower(Top) /\ Top.pc = "done"
    /\ Top.raised # NoExc /\ Top.exc = NoExc
    /\ stack = Top.entry_stack /\ Len(stack) = 1

\* C2: a REQUIRES owner call, not read-only, whose function returns
\* normally, asked the provider once without forcing, commits its session
\* exactly once after the function returned, never rolls it back, and closes
\* it after the commit and before the call is over.
C2_OwnerCommitsThenCloses ==
    \A i \in FrameIds :
       LET f == frames[i]
       IN ( /\ f.propagation = "REQUIRES" /\ f.entry_stack = <<>> /\ ~f.read_only
            /\ N(f, "func") = 1 )
          => /\ f.is_session_owner /\ Asked(f) = <<1, 0>>
             /\ f.pc = "func" => N(f, "commit") = 0 /\ N(f, "close") = 0
             /\ (f.pc = "done" /\ f.raised = NoExc) =>
                   /\ N(f, "rollback") = 0
                   /\ N(f, "commit") = 1 /\ N(f, "close") = 1
                   /\ Before(f, "func", "commit")
                   /\ Before(f, "commit", "close")

C2_Witness ==
    /\ Depth = 1
    /\ Top.propagation = "REQUIRES" /\ Top.is_session_owner /\ ~Top.read_only
    /\ Top.pc = "done" /\ Top.raised = NoExc
    /\ Before(Top, "commit", "close")
    /\ AddedTo(Top.sess_) # {} /\ AddedTo(Top.sess_) \subseteq db

\* C3: with no rollback_for / no_rollback_for, when the function of a
\* REQUIRES owner call raises, the session is rolled back and never
\* committed, the same exception leaves the call, and no object added to the
\* session is persisted.
C3_OwnerErrorRollsBack ==
    \A i \in FrameIds :
       LET f == frames[i]
       IN ( /\ f.propagation = "REQUIRES" /\ f.is_session_owner
            /\ f.rollback_for = {} /\ f.no_rollback_for = {}
            /\ f.raised # NoExc /\ f.pc = "done" )
          => /\ N(f, "rollback") = 1 /\ N(f, "commit") = 0
             /\ f.exc = f.raised
             /\ AddedTo(f.sess_) \cap db = {}

C3_Witness ==
    /\ Depth = 1
    /\ Top.propagation = "REQUIRES" /\ Top.is_session_owner
    /\ Top.rollback_for = {} /\ Top.no_rollback_for = {}
    /\ Top.pc = "done" /\ Top.exc_src = "self" /\ Top.exc = "E1"
    /\ AddedTo(Top.sess_) # {} /\ db = {}

\* C4: a session created by an owner call is closed exactly once, by that
\* call, before the call is over, on every exit path; a session whose owner
\* call is over is closed.
C4_OwnedSessionClosed ==
    /\ \A i \in FrameIds :
          LET f == frames[i]
          IN IsOwner(f) =>
                /\ f.pc = "done" =>
                      N(f, "close") = 1 /\ sessions[f.sess_].closes = 1
                /\ f.pc = "func" =>
                      N(f, "close") = 0 /\ sessions[f.sess_].closes = 0
    /\ \A s \in 1..Len(sessions) :
          (\A i \in FrameIds : ~(IsOwner(frames[i]) /\ frames[i].sess_ = s))
             => sessions[s].closes = 1

\* An owner call that ended on the no-rollback path has closed its session.
C4_Witness ==
    /\ Depth > 0 /\ IsOwner(Top) /\ Top.pc = "done"
    /\ Top.raised # NoExc /\ Top.exc = NoExc
    /\ N(Top, "close") = 1 /\ sessions[Top.sess_].closes = 1

\* C5: a REQUIRES call made while the context stack is non-empty never asks
\* the provider for a session, runs its function on the session that was on
\* top of the stack at entry, and never closes that session.
C5_BorrowerJoins ==
    \A i \in FrameIds :
       LET f == frames[i]
       IN (f.propagation = "REQUIRES" /\ f.entry_stack # <<>>)
          => /\ Asked(f) = <<0, 0>>
             /\ f.sess_ = get_session_from_context(f.entry_stack)
             /\ N(f, "close") = 0
             /\ sessions[f.sess_].closes = 0

C5_Witness ==
    /\ Depth = 2 /\ Top.propagation = "REQUIRES" /\ Top.entry_stack # <<>>
    /\ Top.pc = "done" /\ Top.exc # NoExc
    /\ Top.sess_ = frames[1].sess_

\* C6: when the function of a non-read-only REQUIRES borrower call returns
\* normally while the shared session has pending changes, the engine
\* flushes the session before the borrower call is over and the borrower
\* call never commits it: nothing of the session is persisted while the
\* borrower call exists.
C6_BorrowerFlushesNotCommits ==
    \A i \in FrameIds :
       LET f == frames[i]
       IN IsBorrower(f) =>
             /\ N(f, "commit") = 0
             /\ AddedTo(f.sess_) \cap db = {}
             /\ ( /\ ~f.read_only /\ f.raised = NoExc /\ f.pending_at_return
                  /\ f.pc = "done" )
                => /\ N(f, "flush") = 1
                   /\ ~has_pending_changes(sessions[f.sess_])

\* A borrower call is over after its function left a modified object behind.
C6_Witness ==
    /\ Depth = 2 /\ IsBorrower(Top) /\ ~Top.read_only
    /\ Top.pc = "done" /\ Top.raised = NoExc /\ Top.pending_at_return
    /\ N(Top, "flush") = 1
    /\ sessions[Top.sess_].flushed # {}

\* C7: the engine flushes only when the session's new, dirty or deleted set
\* is non-empty at the moment the function returns; on a session no function
\* has added to, modified or deleted in, the engine never flushes.
C7_NoFlushWithoutChanges ==
    \A i \in FrameIds :
       LET f == frames[i]
       IN /\ N(f, "flush") <= 1
          /\ N(f, "flush") = 1 => f.raised = NoExc /\ f.pending_at_return
          /\ (f.sess_ # NoSession /\ ~sessions[f.sess_].touched) => N(f, "flush") = 0

\* A borrower call is over in a tree whose functions changed nothing.
C7_Witness ==
    /\ Depth = 2 /\ IsBorrower(Top) /\ ~Top.read_only
    /\ Top.pc = "done" /\ Top.raised = NoExc
    /\ ~sessions[Top.sess_].touched /\ N(Top, "flush") = 0
    /\ frames[1].propagation = "REQUIRES"

\* C8: when a REQUIRES borrower call raises and the exception leaves the
\* enclosing REQUIRES owner call too, the shared transaction is rolled back:
\* the owner call has neither committed nor left any object of the session,
\* its own or the borrower's, persisted.
C8_InnerErrorRollsBackAll ==
    \A i \in FrameIds :
       LET f == frames[i]
       IN ( /\ f.propagation = "REQUIRES" /\ f.is_session_owner
            /\ f.exc_src = "borrower" /\ f.exc # NoExc /\ f.pc = "done" )
          => /\ N(f, "rollback") = 1 /\ N(f, "commit") = 0
             /\ AddedTo(f.sess_) \cap db = {}

\* Two objects were added to the session before the exception left the owner.
C8_Witness ==
    /\ Depth = 1 /\ Top.propagation = "REQUIRES" /\ Top.is_session_owner
    /\ Top.exc_src = "borrower" /\ Top.exc # NoExc /\ Top.pc = "done"
    /\ Cardinality(AddedTo(Top.sess_)) = 2 /\ db = {}

\* C9: a borrower call never issues commit, rollback or close on the
\* session it joined.
C9_BorrowerNeverEndsTransaction ==
    \A i \in FrameIds :
       IsBorrower(frames[i]) =>
          /\ N(frames[i], "commit") = 0
          /\ N(frames[i], "rollback") = 0
          /\ N(frames[i], "close") = 0

\* C10: the session of a REQUIRES_NEW call was asked for with force=True
\* and is none of the sessions on the context stack at entry, the ambient
\* one included, also while the scoped registry holds a session.
C10_RequiresNewDistinct ==
    \A i \in FrameIds :
       LET f == frames[i]
       IN f.propagation = "REQUIRES_NEW" =>
             /\ Asked(f) = <<0, 1>>
             /\ \A k \in 1..Len(f.entry_stack) : f.entry_stack[k] # f.sess_
             /\ \A j \in 1..(i - 1) : frames[j].sess_ # f.sess_

\* REQUIRES_NEW runs inside a REQUIRES owner whose session is the one the
\* scoped registry would hand out.
C10_Witness ==
    /\ Depth = 2 /\ Top.propagation = "REQUIRES_NEW" /\ Top.pc = "func"
    /\ scoped # NoSession
    /\ scoped = get_session_from_context(Top.entry_stack)
    /\ Top.sess_ # scoped

\* The sessions on a context stack.
OnStack(st) == {st[k] : k \in 1..Len(st)}

\* C11: while a REQUIRES_NEW call made inside a transaction exists, running
\* or over, on any exit path, the ambient session is in the state it had
\* at entry (nothing committed, rolled back, flushed, closed, no autoflush
\* change); once the call is over its session is nowhere on the context
\* stack and the session a REQUIRES call would join is the ambient one.
C11_RequiresNewLeavesAmbient ==
    \A i \in FrameIds :
       LET f == frames[i]
           amb == get_session_from_context(f.entry_stack)
       IN (f.propagation = "REQUIRES_NEW" /\ amb # NoSession)
          => /\ f.sess_ # amb
             /\ sessions[amb] = f.ambient_at_entry[1]
             /\ f.pc = "done" =>
                   /\ stack = f.entry_stack
                   /\ f.sess_ \notin OnStack(stack)
                   /\ get_session_from_context(stack) = amb

\* A REQUIRES_NEW call has rolled its own session back inside an owner
\* whose session, the scoped registry's, holds unflushed objects.
C11_Witness ==
    /\ Depth = 2 /\ Top.propagation = "REQUIRES_NEW" /\ Top.pc = "done"
    /\ Top.exc # NoExc /\ N(Top, "rollback") = 1 /\ N(Top, "close") = 1
    /\ scoped = frames[1].sess_
    /\ sessions[frames[1].sess_].new # {}
    /\ AddedTo(Top.sess_) # {}

\* Outcomes of the calls the function of call f has made so far.
InnerOf(f) == {f.inner[k] : k \in 1..Len(f.inner)}

\* The function of call f returned and an owner's commit followed.
Committed(f) == f.pc = "done" /\ f.raised = NoExc /\ N(f, "commit") = 1

\* C12: in an outer transaction whose function adds objects and calls a
\* REQUIRES_NEW function that adds objects and raises: with no exception
\* lists the exception leaves the inner call as raised; once an exception
\* has left the inner call, the objects the inner function added are never
\* persisted, also after the outer function, having handled the exception,
\* returns and the outer call commits, and then the objects the outer
\* function added are persisted.
C12_RequiresNewErrorIsolated ==
    \A i \in FrameIds :
       LET f == frames[i]
       IN /\ ( /\ f.propagation = "REQUIRES_NEW" /\ f.pc = "done"
               /\ f.rollback_for = {} /\ f.no_rollback_for = {}
               /\ f.raised # NoExc )
             => f.exc = f.raised
          /\ (f.propagation = "REQUIRES_NEW" /\ f.pc = "done" /\ f.exc # NoExc)
             => f.added \cap db = {}
          /\ \A o \in InnerOf(f) :
                (o.src = "REQUIRES_NEW" /\ o.exc # NoExc)
                => /\ o.added \cap db = {}
                   /\ (f.pc = "done" /\ f.raised = NoExc)
                      => Committed(f) /\ f.added \subseteq db

\* The outer call has committed its object after handling the exception of
\* an inner REQUIRES_NEW call that had added one too.
C12_Witness ==
    /\ Depth = 1 /\ Committed(Top) /\ Top.added # {} /\ db = Top.added
    /\ \E o \in InnerOf(Top) :
          o.src = "REQUIRES_NEW" /\ o.exc # NoExc /\ o.added # {}

\* C13: a REQUIRES_NEW call that is not read-only and whose function
\* returned normally has committed its session, before closing it, when it
\* is over: the objects its function added are persisted then, and they
\* stay persisted whatever the outer transaction does afterwards, a
\* rollback included.
C13_RequiresNewCommitsOwn ==
    \A i \in FrameIds :
       LET f == frames[i]
       IN /\ ( /\ f.propagation = "REQUIRES_NEW" /\ ~f.read_only
               /\ f.pc = "done" /\ f.raised = NoExc )
             => /\ N(f, "commit") = 1 /\ N(f, "rollback") = 0
                /\ Before(f, "commit", "close")
                /\ f.added \subseteq db
          /\ \A o \in InnerOf(f) :
                (o.src = "REQUIRES_NEW" /\ ~o.read_only /\ o.raised = NoExc)
                => o.added \subseteq db

\* The outer transaction was rolled back after an inner REQUIRES_NEW call
\* had returned: the inner object is persisted, the outer one is not.
C13_Witness ==
    /\ Depth = 1 /\ Top.pc = "done" /\ Top.exc # NoExc
    /\ N(Top, "rollback") = 1 /\ Top.added # {} /\ Top.added \cap db = {}
    /\ \E o \in InnerOf(Top) :
          /\ o.src = "REQUIRES_NEW" /\ ~o.read_only /\ o.raised = NoExc
          /\ o.added # {} /\ o.added \subseteq db

\* C14: a NESTED call made with an empty context stack is over at once
\* with ValueError: it asked the provider for nothing, opened no savepoint,
\* pushed nothing, never invoked its function, holds no session, and the
\* context stack is the empty stack it found.
C14_NestedNeedsTransaction ==
    \A i \in FrameIds :
       LET f == frames[i]
       IN (f.propagation = "NESTED" /\ f.entry_stack = <<>>)
          => /\ f.pc = "done" /\ f.exc = "ValueError"
             /\ Asked(f) = <<0, 0>>
             /\ N(f, "begin_nested") = 0 /\ N(f, "push") = 0
             /\ N(f, "func") = 0
             /\ f.sess_ = NoSession
             /\ stack = <<>>

\* The failing NESTED call follows a transaction that is over: no session
\* was made for it.
C14_Witness ==
    /\ Depth = 1 /\ Top.propagation = "NESTED" /\ Top.exc = "ValueError"
    /\ calls = 2 /\ Len(sessions) = 1 /\ sessions[1].closes = 1
    /\ stack = <<>>

\* Objects session s holds: pending, persistent, or written in the open
\* transaction.
Tracked(s) == s.new \cup s.dirty \cup s.deleted \cup s.idmap \cup s.flushed

\* C15: when the function of a NESTED call inside an outer transaction adds
\* objects and raises a rollback trigger, the call rolls its savepoint back
\* and nothing else (no session rollback, commit or close), the same
\* exception leaves the call, and the outer session stays active with the
\* outer function's objects still written in the open transaction and none
\* of the nested function's; the nested function's objects are never
\* persisted, and once the outer function returns and the outer call
\* commits, the outer function's objects are persisted.
C15_NestedErrorRollsBackSavepoint ==
    \A i \in FrameIds :
       LET f == frames[i]
           s == sessions[f.sess_]
       IN /\ (f.propagation = "NESTED" /\ f.pc = "done" /\ RollbackTrigger(f))
             => /\ f.exc = f.raised
                /\ N(f, "savepoint.rollback") = 1
                /\ N(f, "savepoint.commit") = 0
                /\ N(f, "rollback") = 0 /\ N(f, "commit") = 0
                /\ N(f, "close") = 0
                /\ s.is_active /\ s.closes = 0
                /\ ~SavepointActive(s, f.save_point)
                /\ f.added \cap (Tracked(s) \cup db) = {}
                /\ frames[i - 1].added \subseteq s.flushed
          /\ \A o \in InnerOf(f) :
                (o.src = "NESTED" /\ o.rollback_trigger)
                => /\ o.exc = o.raised
                   /\ o.added \cap db = {}
                   /\ (f.pc = "done" /\ f.raised = NoExc)
                      => Committed(f) /\ f.added \subseteq db

\* The outer call has committed its object after handling the exception of
\* a NESTED call that had added one too.
C15_Witness ==
    /\ Depth = 1 /\ Committed(Top) /\ Top.added # {} /\ db = Top.added
    /\ \E o \in InnerOf(Top) :
          /\ o.src = "NESTED" /\ ~o.read_only /\ o.rollback_trigger
          /\ o.added # {}

\* C16: when a NESTED call has returned normally and a rollback trigger
\* leaves the outer function afterwards, the outer call rolls the session
\* back once and never commits it, and nothing that the outer function or
\* the nested function added is persisted.
C16_OuterErrorRollsBackNested ==
    \A i \in FrameIds :
       LET f == frames[i]
       IN \A o \in InnerOf(f) :
             ( /\ o.src = "NESTED" /\ o.raised = NoExc
               /\ IsOwner(f) /\ f.pc = "done" /\ RollbackTrigger(f) )
             => /\ N(f, "rollback") = 1 /\ N(f, "commit") = 0
                /\ f.exc = f.raised
                /\ (f.added \cup o.added) \cap db = {}

\* The outer function raised after a NESTED call that had added an object
\* and released its savepoint.
C16_Witness ==
    /\ Depth = 1 /\ Top.pc = "done" /\ RollbackTrigger(Top)
    /\ Top.exc_src = "self" /\ Top.added # {} /\ db = {}
    /\ \E o \in InnerOf(Top) :
          /\ o.src = "NESTED" /\ ~o.read_only /\ o.raised = NoExc
          /\ o.added # {}

\* C17: when the function of a NESTED call that is not read-only returns
\* normally, the engine flushes the ambient session exactly when it has
\* pending changes, then releases the savepoint, and neither commits nor
\* rolls back the ambient transaction: the nested function's objects are
\* written in the open transaction and not yet persisted; once the outer
\* function returns and the outer call commits, the objects of the outer
\* and of the nested function are all persisted.
C17_NestedSuccessReleases ==
    \A i \in FrameIds :
       LET f == frames[i]
           s == sessions[f.sess_]
       IN /\ ( /\ f.propagation = "NESTED" /\ ~f.read_only
               /\ f.pc = "done" /\ f.raised = NoExc )
             => /\ N(f, "flush") = (IF f.pending_at_return THEN 1 ELSE 0)
                /\ f.pending_at_return => Before(f, "flush", "savepoint.commit")
                /\ N(f, "savepoint.commit") = 1
                /\ N(f, "savepoint.rollback") = 0
                /\ N(f, "commit") = 0 /\ N(f, "rollback") = 0
                /\ ~has_pending_changes(s)
                /\ f.added \subseteq s.flushed
                /\ f.added \cap db = {}
          /\ \A o \in InnerOf(f) :
                ( /\ o.src = "NESTED" /\ ~o.read_only /\ o.raised = NoExc
                  /\ Committed(f) )
                => (f.added \cup o.added) \subseteq db

\* The outer call has committed an object of its own and one added by a
\* NESTED call that returned normally.
C17_Witness ==
    /\ Depth = 1 /\ Committed(Top) /\ Top.added # {}
    /\ \E o \in InnerOf(Top) :
          /\ o.src = "NESTED" /\ ~o.read_only /\ o.raised = NoExc
          /\ o.added # {}
          /\ db = Top.added \cup o.added

\* C18: a read-only NESTED call that is over has rolled its savepoint back
\* exactly once and never released it, whether its function returned
\* normally, raised a rollback trigger or raised an exception classified
\* as no-rollback; the savepoint is gone and nothing its function added is
\* left in the session.
C18_ReadOnlyNestedRollsBack ==
    \A i \in FrameIds :
       LET f == frames[i]
           s == sessions[f.sess_]
       IN (f.propagation = "NESTED" /\ f.read_only /\ f.pc = "done"
           /\ f.entry_stack # <<>>)
          => /\ N(f, "savepoint.rollback") = 1
             /\ N(f, "savepoint.commit") = 0
             /\ ~SavepointActive(s, f.save_point)
             /\ f.added \cap (Tracked(s) \cup db) = {}

\* A read-only NESTED call whose function added an object and raised an
\* exception classified as no-rollback is over.
C18_Witness ==
    /\ Depth = 2 /\ Top.propagation = "NESTED" /\ Top.read_only
    /\ Top.pc = "done" /\ Top.raised # NoExc /\ ~RollbackTrigger(Top)
    /\ Top.exc = Top.raised
    /\ N(Top, "savepoint.rollback") = 1 /\ Top.added # {}

\* C19: whatever the propagation mode and the classification, an
\* exception that left the wrapped function leaves the decorated call as
\* the same exception: the engine never turns it into a normal return.
C19_ExceptionAlwaysPropagates ==
    \A i \in FrameIds :
       LET f == frames[i]
       IN (f.pc = "done" /\ f.raised # NoExc) => f.exc = f.raised

\* C20: when the function of an owner call that is not read-only raises an
\* exception classified as no-rollback, the engine does not roll the
\* session back and commits it before closing it, so that what the
\* function added before the exception is persisted.
C20_NoRollbackCommits ==
    \A i \in FrameIds :
       LET f == frames[i]
       IN ( /\ IsOwner(f) /\ ~f.read_only /\ f.pc = "done"
            /\ f.raised # NoExc /\ ~RollbackTrigger(f) )
          => /\ N(f, "rollback") = 0
             /\ N(f, "commit") = 1
             /\ Before(f, "commit", "close")
             /\ f.added \subseteq db

\* The exception that left the function of call f is named in both lists.
InBothLists(f) ==
    f.raised \in f.rollback_for /\ f.raised \in f.no_rollback_for

\* The engine rolled back because of the exception: the session in REQUIRES
\* and REQUIRES_NEW, the savepoint in NESTED.
RolledBack(f) ==
    IF f.propagation = "NESTED" THEN N(f, "savepoint.rollback") = 1
                                ELSE N(f, "rollback") = 1

C22_RollbackForDecides ==
    \A i \in FrameIds :
       LET f == frames[i]
       IN ( /\ f.pc = "done" /\ f.raised # NoExc /\ f.rollback_for # {}
            /\ ~(f.propagation = "NESTED" /\ f.read_only) )
          => /\ RolledBack(f) <=> ( /\ f.raised \in f.rollback_for
                                    /\ f.raised \notin f.no_rollback_for )
             /\ f.exc = f.raised

\* The rollback half of C22 alone.
C22_RollbackHalf ==
    \A i \in FrameIds :
       LET f == frames[i]
       IN ( /\ f.pc = "done" /\ f.raised # NoExc /\ f.rollback_for # {}
            /\ ~(f.propagation = "NESTED" /\ f.read_only) )
          => ( RolledBack(f) <=> ( /\ f.raised \in f.rollback_for
                                   /\ f.raised \notin f.no_rollback_for ) )

\* C23: a read-only owner call (REQUIRES on an empty stack, or
\* REQUIRES_NEW) never commits its session, whether its function returns,
\* raises a rollback trigger or raises an exception classified as
\* no-rollback: nothing added to the session is ever persisted; when the
\* call is over it has closed the session once and popped its entry, and
\* the context stack is the one it found.
C23_ReadOnlyOwnerNeverCommits ==
    \A i \in FrameIds :
       LET f == frames[i]
       IN (IsOwner(f) /\ f.read_only)
          => /\ N(f, "commit") = 0
             /\ AddedTo(f.sess_) \cap db = {}
             /\ f.pc = "done" =>
                   /\ N(f, "close") = 1 /\ N(f, "pop") = 1
                   /\ Before(f, "func", "close") /\ Before(f, "close", "pop")
                   /\ sessions[f.sess_].closes = 1
                   /\ stack = f.entry_stack
                   /\ f.sess_ \notin OnStack(stack)

\* A read-only owner call is over whose function added an object, left it
\* pending and returned normally.
C23_Witness ==
    /\ Depth = 1 /\ IsOwner(Top) /\ Top.read_only
    /\ Top.pc = "done" /\ Top.raised = NoExc /\ Top.pending_at_return
    /\ AddedTo(Top.sess_) # {} /\ db = {}
    /\ N(Top, "close") = 1

\* C24: while the function of a read-only decorated call runs, in every
\* propagation mode, autoflush is off on the session the function was
\* given.
C24_ReadOnlyAutoflushOff ==
    \A i \in FrameIds :
       LET f == frames[i]
       IN (f.read_only /\ f.pc = "func")
          => ~sessions[f.sess_].autoflush

\* C24 for REQUIRES and REQUIRES_NEW calls alone.
C24_ExceptNested ==
    \A i \in FrameIds :
       LET f == frames[i]
       IN (f.read_only /\ f.pc = "func" /\ f.propagation # "NESTED")
          => ~sessions[f.sess_].autoflush

\* C25: the engine never flushes or commits the session for a read-only
\* decorated call, in any propagation mode, whatever changes are pending
\* on the session when the function of the call returns.
C25_ReadOnlyNeverFlushes ==
    \A i \in FrameIds :
       LET f == frames[i]
       IN f.read_only => N(f, "flush") = 0 /\ N(f, "commit") = 0

\* C25 for owner calls and NESTED calls alone.
C25_ExceptBorrower ==
    \A i \in FrameIds :
       LET f == frames[i]
       IN (f.read_only /\ ~IsBorrower(f))
          => N(f, "flush") = 0 /\ N(f, "commit") = 0

\* The autoflush setting the function of call g runs with.
SettingOf(g) ==
    IF g.read_only /\ g.propagation # "NESTED" THEN FALSE
    ELSE g.origin_autoflush

\* C26: when a REQUIRES or REQUIRES_NEW call that entered its function is
\* over, on any exit path and read-only or not, autoflush on its session
\* is what it was at entry: the factory's setting on the session of an
\* owner call, and for a borrower call the setting the function of the
\* enclosing call was running with.
C26_AutoflushRestored ==
    \A i \in FrameIds :
       LET f == frames[i]
       IN ( /\ f.propagation \in {"REQUIRES", "REQUIRES_NEW"}
            /\ N(f, "func") = 1 /\ f.pc = "done" )
          => /\ sessions[f.sess_].autoflush = f.origin_autoflush
             /\ IsOwner(f) =>
                   sessions[f.sess_].autoflush = NewSessionState.autoflush
             /\ IsBorrower(f) =>
                   sessions[f.sess_].autoflush = SettingOf(frames[i - 1])

\* A read-only borrower call has ended with an exception inside a call
\* that is not read-only: autoflush is on again.
C26_Witness ==
    /\ Depth = 2 /\ IsBorrower(Top) /\ Top.read_only
    /\ Top.pc = "done" /\ Top.exc # NoExc
    /\ ~frames[1].read_only
    /\ sessions[Top.sess_].autoflush

\* The context stack the calls in progress fs of one execution account
\* for: the sessions of those that hold an entry, outermost first.
OwnStack(fs) ==
    LET held == SelectSeq(fs, HoldsEntry)
    IN [k \in 1..Len(held) |-> held[k].sess_]

\* Every call among fs runs on a session that an owner call of the same
\* execution, itself or an enclosing one, created and pushed.
OwnSessions(fs) ==
    \A i \in 1..Len(fs) :
       fs[i].sess_ # NoSession
          => \E j \in 1..i : IsOwner(fs[j]) /\ fs[j].sess_ = fs[i].sess_

SessionsOf(fs) == {fs[i].sess_ : i \in 1..Len(fs)} \ {NoSession}

\* C27: two executions that interleave decorated calls at suspension
\* points never see or change each other's context stack: the stack each
\* one reads, when running and when resumed, holds exactly the entries of
\* its own calls in progress, whatever the other pushed or popped in
\* between; every function runs on a session created and pushed by a call
\* of its own execution; no session is used by calls of both.
C27_TasksIsolated ==
    /\ stack = OwnStack(frames)
    /\ idle.stack = OwnStack(idle.frames)
    /\ OwnSessions(frames) /\ OwnSessions(idle.frames)
    /\ SessionsOf(frames) \cap SessionsOf(idle.frames) = {}
    /\ OnStack(stack) \cap OnStack(idle.stack) = {}

\* While one task is suspended inside its transaction, the other has made
\* a call that created a later session, pushed it and popped it again.
C27_Witness ==
    /\ Len(idle.frames) = 1 /\ idle.frames[1].pc = "func"
    /\ idle.stack = <<idle.frames[1].sess_>>
    /\ Depth = 1 /\ Top.pc = "done" /\ N(Top, "pop") = 1
    /\ Top.sess_ > idle.frames[1].sess_
    /\ stack = <<>>

\* C28: as long as init_manager has not been called, every REQUIRES or
\* REQUIRES_NEW call is over at once with a configuration error: its
\* function was never invoked, nothing was pushed, no session exists, so
\* none was committed, rolled back or closed, and the context stack is the
\* empty stack the call found.
C28_NoManagerFailsFast ==
    ~manager =>
       /\ stack = <<>> /\ sessions = <<>> /\ db = {}
       /\ \A i \in FrameIds :
             LET f == frames[i]
             IN f.propagation \in {"REQUIRES", "REQUIRES_NEW"}
                => /\ f.pc = "done" /\ f.exc = "ConfigurationError"
                   /\ Asked(f) = (IF f.propagation = "REQUIRES"
                                   THEN <<1, 0>> ELSE <<0, 1>>)
                   /\ N(f, "func") = 0 /\ N(f, "push") = 0
                   /\ N(f, "commit") = 0 /\ N(f, "rollback") = 0
                   /\ N(f, "close") = 0 /\ N(f, "pop") = 0
                   /\ f.sess_ = NoSession
                   /\ stack = f.entry_stack

\* A second owner call, a REQUIRES_NEW one, has failed before
\* init_manager.
C28_Witness ==
    /\ ~manager /\ calls = 2 /\ Depth = 1
    /\ Top.propagation = "REQUIRES_NEW" /\ Top.exc = "ConfigurationError"
    /\ stack = <<>>

\* The operations C29 compares.
OwnerOp(e) == e \in {"push", "func", "commit", "rollback", "close", "pop"}

\* What the engine did on the session of call f, provider requests and
\* scoped-handle teardown left out.
Trace(f) == SelectSeq(f.log, OwnerOp)

\* The operations of an owner call as a function of its read-only flag,
\* its exception lists and what left its function, and of nothing else.
OwnerTrace(ro, rf, nrf, raised) ==
    <<"push", "func">>
    \o (IF raised = NoExc THEN (IF ro THEN <<>> ELSE <<"commit">>)
        ELSE IF check_is_commit(raised, rf, nrf) THEN <<>>
        ELSE <<"rollback">>)
    \o <<"close", "pop">>

\* What the caller of an owner call gets: the exception, or a return.
OwnerResult(rf, nrf, raised) ==
    IF raised # NoExc /\ ~check_is_commit(raised, rf, nrf) THEN raised
    ELSE NoExc

\* C29: on an empty context stack a REQUIRES call and a REQUIRES_NEW call
\* with the same read-only flag and exception lists, whose functions end
\* the same way, issue the same sequence of push, invoke, commit or
\* rollback, close and pop on their new session and give the caller the
\* same result or exception: both are the one sequence and the one result
\* that flag, lists and ending determine.  They differ in the request to
\* the provider, unforced and forced.
C29_OwnerPathsEquivalent ==
    \A i \in FrameIds :
       LET f == frames[i]
       IN ( /\ f.propagation \in {"REQUIRES", "REQUIRES_NEW"}
            /\ f.entry_stack = <<>> /\ N(f, "func") = 1 /\ f.pc = "done" )
          => /\ Trace(f) = OwnerTrace(f.read_only, f.rollback_for,
                                      f.no_rollback_for, f.raised)
             /\ f.exc = OwnerResult(f.rollback_for, f.no_rollback_for,
                                    f.raised)
             /\ sessions[f.sess_].closes = 1 /\ stack = <<>>
             /\ Asked(f) = (IF f.propagation = "REQUIRES"
                             THEN <<1, 0>> ELSE <<0, 1>>)

\* A REQUIRES_NEW call on an empty stack, made after an earlier call, is
\* over: its function raised an exception that came from a call it made.
C29_Witness ==
    /\ Depth = 1 /\ Top.propagation = "REQUIRES_NEW"
    /\ Top.entry_stack = <<>> /\ Top.pc = "done"
    /\ Top.raised # NoExc /\ Top.exc_src = "borrower"
    /\ Trace(Top) = <<"push", "func", "rollback", "close", "pop">>

\* How many of the operations k..j of history h are `what`.
Count(h, k, j, what) == Cardinality({n \in k..j : h[n].op = what})

\* The push at position k of history h has not been popped: after it, no
\* stretch of operations holds more pops than pushes.
Live(h, k) ==
    /\ h[k].op = "push"
    /\ \A j \in (k + 1)..Len(h) :
          Count(h, k + 1, j, "pop") <= Count(h, k + 1, j, "push")

\* The sessions whose push is not popped yet, oldest first.
LivePushes(h) ==
    LET live == SelectSeq([k \in 1..Len(h) |-> [at |-> k, op |-> h[k]]],
                          LAMBDA e : Live(h, e.at))
    IN [n \in 1..Len(live) |-> live[n].op.value]

\* C30: after any sequence of pushes, pops, peeks and size readings on
\* the context stack, the size is the number of pushes minus the number of
\* pops; the stack holds exactly the pushed sessions not popped yet, so
\* that each pop removed the most recent of them; a transaction is active
\* exactly when the size is positive; every peek returned the most recent
\* session not popped yet, or nothing, and every size reading the pushes
\* minus the pops before it; peeks and size readings changed nothing.
C30_StackIsLifo ==
    /\ get_session_stack_size(stack)
          = Count(ops, 1, Len(ops), "push") - Count(ops, 1, Len(ops), "pop")
    /\ stack = LivePushes(ops)
    /\ has_active_transaction(stack) <=> get_session_stack_size(stack) > 0
    /\ \A k \in 1..Len(ops) :
          LET before == LivePushes(SubSeq(ops, 1, k - 1))
          IN /\ ops[k].op = "peek" =>
                   ops[k].value = (IF before = <<>> THEN NoSession
                                   ELSE before[Len(before)])
             /\ ops[k].op = "size" =>
                   ops[k].value = Count(ops, 1, k - 1, "push")
                                    - Count(ops, 1, k - 1, "pop")

\* Two sessions were pushed, the top was read, one entry was popped and
\* the top was read again.
C30_Witness ==
    /\ Len(ops) = 4
    /\ ops[1].op = "push" /\ ops[2].op = "push"
    /\ ops[1].value # ops[2].value
    /\ ops[3].op = "pop" /\ ops[4].op = "peek"
    /\ ops[4].value = ops[1].value
    /\ stack = <<ops[1].value>>

\* The close() of owner call f raised.
CloseFailed(f) == IsOwner(f) /\ f.pc = "done" /\ f.exc = "CloseError"

\* C31: when closing the owned session raises, the owner call has still
\* restored autoflush and popped its context entry: the context stack is
\* the one the call found and the session is nowhere on it, so no later
\* call joins it.
C31_CleanupAttemptsEveryStep ==
    \A i \in FrameIds :
       LET f == frames[i]
       IN CloseFailed(f)
          => /\ sessions[f.sess_].autoflush = f.origin_autoflush
             /\ N(f, "pop") = 1
             /\ stack = f.entry_stack
             /\ f.sess_ \notin OnStack(stack)

\* The autoflush half of C31 alone.
C31_AutoflushHalf ==
    \A i \in FrameIds :
       LET f == frames[i]
       IN CloseFailed(f) => sessions[f.sess_].autoflush = f.origin_autoflush

\* After an owner call whose close() raised, a later REQUIRES call has
\* joined the session the failed call left on the context stack.
C31_StaleSessionJoined ==
    /\ Depth = 1 /\ IsBorrower(Top) /\ Top.pc = "func"
    /\ sessions[Top.sess_].broken
    /\ Asked(Top) = <<0, 0>>

\* The decorated calls whose function has been entered and is not over.
InProgress == {i \in FrameIds : frames[i].pc = "func"}

RollbackOf(f) ==
    IF f.propagation = "NESTED" THEN "savepoint.rollback" ELSE "rollback"

\* When call f issued its one rollback, exactly what had joined the
\* identity map since the snapshot of the call's entry had been expunged,
\* and what the snapshot holds was still attached.
EvictedSinceSnapshot(f) ==
    /\ Len(f.evicted) = 1
    /\ ~Before(f, RollbackOf(f), "reset")
    /\ LET e == f.evicted[1]
       IN /\ e.attached \ e.left = e.attached \ f.object_snapshots
          /\ e.attached \cap f.object_snapshots \subseteq e.left

\* C34: a decorated call that ends in a rollback, of the session in
\* REQUIRES and REQUIRES_NEW and of the savepoint in NESTED, has before
\* that rollback expunged exactly the objects that joined the identity map
\* after the snapshot of its entry, and left attached every object of the
\* snapshot.
C34_RollbackEvictsSinceSnapshot ==
    \A i \in FrameIds :
       LET f == frames[i]
       IN (f.pc = "done" /\ N(f, RollbackOf(f)) > 0)
          => EvictedSinceSnapshot(f)

\* C34 for the rollbacks that an exception leaving the function causes;
\* a call that ends without one evicts nothing.
C34_OnException ==
    \A i \in FrameIds :
       LET f == frames[i]
       IN /\ (f.pc = "done" /\ f.raised # NoExc)
             => /\ N(f, RollbackOf(f)) = 1 /\ N(f, "reset") = 1
                /\ Before(f, "reset", RollbackOf(f))
                /\ EvictedSinceSnapshot(f)
          /\ (f.pc = "done" /\ f.raised = NoExc) => N(f, "reset") = 0

\* A borrower call that found one persistent object has rolled back after
\* its function flushed a second one: the eviction expunged the second
\* and left the first.
C34_EvictionSeen ==
    /\ Depth = 2 /\ IsBorrower(Top) /\ Top.pc = "done"
    /\ Cardinality(Top.object_snapshots) = 1
    /\ Len(Top.evicted) = 1
    /\ Cardinality(Top.evicted[1].attached) = 2
    /\ Top.evicted[1].left = Top.object_snapshots

\* The NESTED call with outcome o raised because a REQUIRES call made by
\* its function raised a rollback trigger.
BorrowerFailedIn(o) ==
    o.src = "NESTED" /\ o.exc_src = "borrower" /\ o.rollback_trigger

\* C35: when a REQUIRES call made by the function of a NESTED call raises
\* a rollback trigger, what the outer function added before the NESTED
\* call survives: once the NESTED call is over those objects are still
\* written in the open transaction, and when the outer function, having
\* handled the exception, returns, the outer call commits and they are
\* persisted.
C35_OuterSurvivesInnerBorrower ==
    \A i \in FrameIds :
       LET f == frames[i]
       IN /\ ( /\ i > 1 /\ f.propagation = "NESTED" /\ f.pc = "done"
               /\ f.exc_src = "borrower" /\ RollbackTrigger(f) )
             => frames[i - 1].added \subseteq sessions[f.sess_].flushed
          /\ \A o \in InnerOf(f) :
                (BorrowerFailedIn(o) /\ f.pc = "done" /\ f.raised = NoExc)
                => Committed(f) /\ f.added \subseteq db

\* The owner call has committed after handling the exception of a NESTED
\* call whose inner REQUIRES call had raised: the object its function had
\* added before the NESTED call is not persisted.
C35_OuterWorkLost ==
    /\ Depth = 1 /\ Committed(Top) /\ Top.added # {}
    /\ \E o \in InnerOf(Top) : BorrowerFailedIn(o)
    /\ Top.added \cap db = {}

\* How often call f ended its savepoint itself.
Resolutions(f) == N(f, "savepoint.rollback") + N(f, "savepoint.commit")

\* A REQUIRES call made by the function of call f rolled the session back,
\* and with it every savepoint open on it.
SessionRolledBackIn(f) ==
    \E o \in InnerOf(f) : o.src = "borrower" /\ o.rollback_trigger

\* C36: when a NESTED call is over, by return or by exception, its
\* savepoint is not active any more and was ended exactly once: rolled
\* back or released by the call, never both and never twice, or rolled
\* back together with the whole session by a REQUIRES call its function
\* made, and then the call itself neither rolls it back nor releases it.
\* A savepoint rolled back in the exception handler is not released in the
\* finally block.  While the function runs the call has not ended it.
C36_SavepointResolvedOnce ==
    \A i \in FrameIds :
       LET f == frames[i]
           s == sessions[f.sess_]
       IN (f.propagation = "NESTED" /\ f.entry_stack # <<>>)
          => /\ f.pc = "func" => Resolutions(f) = 0
             /\ f.pc = "done" =>
                   /\ ~SavepointActive(s, f.save_point)
                   /\ Resolutions(f) = (IF SessionRolledBackIn(f) THEN 0 ELSE 1)
                   /\ ~Before(f, "savepoint.rollback", "savepoint.commit")
                   /\ RollbackTrigger(f) => N(f, "savepoint.commit") = 0

\* A NESTED call that is not read-only has rolled its savepoint back in
\* the exception handler, after a REQUIRES call made by its function had
\* returned: the finally block released nothing.
C36_Witness ==
    /\ Depth = 2 /\ Top.propagation = "NESTED" /\ ~Top.read_only
    /\ Top.pc = "done" /\ RollbackTrigger(Top) /\ Top.exc_src = "self"
    /\ \E o \in InnerOf(Top) : o.src = "borrower" /\ o.raised = NoExc
    /\ N(Top, "savepoint.rollback") = 1 /\ N(Top, "savepoint.commit") = 0
    /\ Top.log[Len(Top.log)] = "savepoint.rollback"

AfterFunc(f) ==
    LET k == CHOOSE j \in 1..Len(f.log) : f.log[j] = "func"
    IN SubSeq(f.log, k + 1, Len(f.log))

\* C38: an owner call whose function is left by a cancellation (its own or
\* one that came through an inner call) never commits: after the function
\* the engine only closes the owned session and pops the entry the call
\* pushed (and removes a scoped handle), in that order; the session is
\* closed, the stack is as the call found it, none of the objects added to
\* the session is persisted, and the cancellation is what leaves the call.
C38_CancelledOwnerClosesAndPops ==
    \A i \in FrameIds :
       LET f == frames[i]
       IN (f.pc = "done" /\ IsOwner(f) /\ f.raised = Cancelled)
          => /\ N(f, "commit") = 0
             /\ N(f, "close") = 1 /\ N(f, "pop") = 1
             /\ AfterFunc(f) \in {<<"close", "pop">>, <<"close", "pop", "remove">>}
             /\ sessions[f.sess_].closes >= 1
             /\ (i = Depth => stack = f.entry_stack)
             /\ AddedTo(f.sess_) \cap db = {}
             /\ f.exc = Cancelled

\* An owner call at top level that was cancelled after its function added
\* an object: closed, popped, nothing persisted.
C38_Witness ==
    /\ Depth = 1 /\ Top.pc = "done" /\ IsOwner(Top) /\ ~Top.read_only
    /\ Top.raised = Cancelled /\ Top.exc_src = "self"
    /\ AddedTo(Top.sess_) # {} /\ db = {}
    /\ sessions[Top.sess_].closes = 1 /\ stack = <<>>

LegacyN(f, what) == Cardinality({k \in 1..Len(f.log) : f.log[k] = what})

\* C39: in the legacy decorator a REQUIRES call made while a session is the
\* current transaction context runs its function on that session, neither
\* commits nor closes it, and when the call has returned that session is
\* still the current context and has not been closed.
C39_LegacyRequiresJoinsAmbient ==
    \A i \in 1..LegacyDepth :
       LET f == legacy_frames[i]
       IN (f.pc = "done" /\ f.propagation = "REQUIRES"
           /\ f.entry_context # NoSession)
          => /\ f.session = f.entry_context
             /\ LegacyN(f, "func") = 1
             /\ LegacyN(f, "commit") = 0 /\ LegacyN(f, "close") = 0
             /\ (i = LegacyDepth /\ f.exc = NoExc)
                => /\ transaction_context = f.entry_context
                   /\ legacy_sessions[f.entry_context].closes = 0

\* An inner REQUIRES call has returned to the function of the call that
\* began the transaction: the session they share is closed, what the outer
\* function had added is committed, and there is no current context.
C39_AmbientEndedByInner ==
    /\ LegacyDepth = 2 /\ LegacyTop.pc = "done" /\ LegacyTop.exc = NoExc
    /\ LegacyTop.propagation = "REQUIRES"
    /\ legacy_frames[1].pc = "func"
    /\ LegacyTop.session = legacy_frames[1].session
    /\ legacy_sessions[LegacyTop.session].closes = 1
    /\ legacy_sessions[LegacyTop.session].committed = 1
    /\ transaction_context = NoSession

\* The inner REQUIRES call is a coroutine function: begin() on the session
\* whose transaction is begun raises and the function never runs.
C39_AmbientBeginRaises ==
    /\ LegacyDepth = 2 /\ LegacyTop.pc = "done"
    /\ LegacyTop.propagation = "REQUIRES" /\ LegacyTop.is_async
    /\ LegacyTop.entry_context # NoSession
    /\ LegacyTop.exc = "InvalidRequestError" /\ LegacyN(LegacyTop, "func") = 0

\* C40: in the legacy decorator, once a REQUIRES_NEW call is over, by
\* return or by exception, the transaction context is what it was before
\* the call and every session the wrapper obtained from the manager during
\* the call has been closed.
C40_LegacyRequiresNewRestores ==
    \A i \in 1..LegacyDepth :
       LET f == legacy_frames[i]
       IN (i = LegacyDepth /\ f.pc = "done" /\ f.propagation = "REQUIRES_NEW")
          => /\ transaction_context = f.entry_context
             /\ \A k \in f.obtained : legacy_sessions[k].closes >= 1

\* A REQUIRES_NEW call made inside a transaction ended with an exception:
\* its own session is closed, and the caller's session is no longer the
\* current context.
C40_ContextLostOnException ==
    /\ LegacyDepth = 2 /\ LegacyTop.pc = "done" /\ LegacyTop.exc = "E1"
    /\ LegacyTop.propagation = "REQUIRES_NEW"
    /\ LegacyTop.entry_context = legacy_frames[1].session
    /\ legacy_sessions[LegacyTop.session].closes = 1
    /\ transaction_context = NoSession

\* A REQUIRES_NEW call made outside every transaction returned: the session
\* obtained at line 80 was never closed and is now the current context.
C40_SpareSessionLeft ==
    /\ LegacyDepth = 1 /\ LegacyTop.pc = "done" /\ LegacyTop.exc = NoExc
    /\ LegacyTop.propagation = "REQUIRES_NEW"
    /\ LegacyTop.entry_context = NoSession
    /\ transaction_context = LegacyTop.current_session
    /\ legacy_sessions[LegacyTop.current_session].closes = 0
    /\ legacy_sessions[LegacyTop.session].closes = 1

=============================================================================
